---- MODULE Spec2Model ----
(***************************************************************************)
(* A model of spec_eng: the state-machine extraction and gap analysis      *)
(* (graph.py, gaps.py), the gaps/triage commands (cli.py), the             *)
(* interrogation loop (interrogation.py) and the dual-notation compiler    *)
(* (dual_spec.py).  Each part has its own variables and its own            *)
(* specification; a specification leaves the variables of the other parts  *)
(* at their initial values.                                                *)
(***************************************************************************)
EXTENDS Integers, Sequences, FiniteSets, TLC

VARIABLES
    scenario,     \* graph.py: the Scenario handed to extract_states_and_transitions
    extracted,    \* the (states, transitions) it returned
    epc,          \* "ready" before the call of extract_states_and_transitions, "done" after
    parsed,       \* graph.py: the scenarios of the ParseResult last given to build_graph
    graph,        \* the GraphModel last returned
    merged,       \* the scenarios a rebuild would use: parsed minus replaced titles, then the new ones
    gop,          \* the operation that returned graph: "none", "build" or "update"
    nupd,         \* the number of update_graph_incremental calls since build_graph
    handed,       \* the number of scenarios handed to the builder so far
    specs,        \* cli.py: the scenarios of the project's own spec file
    templates,    \* the scenarios of the template files written by triage, by state label
    gapsFile,     \* the gaps saved in .spec-eng/gaps.json (empty when the file is missing)
    report,       \* the gaps found by the last run of the gaps command
    tcmd,         \* the last command run: "none", "gaps" or "triage"
    settled,      \* descriptions triaged intentional or out-of-scope since the specs last changed
    dalText,      \* dual_spec.py: the lines of a DAL file
    dalOut,       \* what parsing, rendering, parsing again and rendering again made of it
    dpc,          \* "ready" before the DAL file is canonicalized, "done" after
    dalGwt,       \* what rendering the DAL file's IR as GWT and parsing that made of it
    xpc,          \* "ready" before the DAL file is rendered as GWT, "done" after
    gwtText,      \* dual_spec.py: the lines of a GWT file
    gwtOut,       \* what parsing, rendering and parsing again made of it
    gpc,          \* "ready" before the GWT file is round-tripped, "done" after
    inputFile,    \* compile_spec: the suffix and the lines of the input file
    fs,           \* the four output files of compile_spec under the project root
    fsBefore,     \* the output files when the last call of compile_spec started
    raised,       \* whether the last call of compile_spec raised DualSpecError
    runs,         \* the number of calls of compile_spec so far
    sessionFile,  \* interrogation.py: the session saved in .spec-eng/interrogation
    draftFile,    \* the draft specs/{slug}.txt
    artifacts,    \* the four output files of compile_spec for the draft
    vocabExists,  \* whether specs/vocab.yaml exists
    lastCall,     \* the arguments and the outcome of the last interrogate_iteration call
    calls,        \* the number of interrogate_iteration calls so far
    gbuilt,       \* gaps.py: the scenarios given to build_graph for the analysed graph
    gnew,         \* the scenarios given to update_graph_incremental after that, if any
    ggraph,       \* the graph that analyze_gaps is called on
    gtriaged,     \* the keys of the triaged map
    gbase,        \* analyze_gaps(graph, {})
    gout,         \* analyze_gaps(graph, triaged)
    grerun,       \* analyze_gaps after every gap of gout has been triaged
    apc,          \* "ready" before the analysis, "analyzed" after, "rerun" after the re-run
    pinput,       \* dual_spec.py: the suffix and the lines of the file given to a parser
    presult,      \* what parse_dal or parse_gwt returned for it
    ppc,          \* "ready" before the parse, "done" after
    vsource,      \* dual_spec.py: the vocabulary file given to load_vocab
    vresult,      \* what load_vocab returned for it
    vpc,          \* "ready" before the load, "done" after
    ltext,        \* parser.py: the lines of the text given to parse_gwt_string
    lfile,        \* its source_file argument
    lresult,      \* the ParseResult
    lpc,          \* "ready" before the parse, "done" after
    rentry,       \* dual_spec.py: a vocabulary entry as _build_vocab_entry returns it
    rargs,        \* string values for its declared arguments
    rline,        \* its GWT render template filled with them
    rmatch,       \* the match of the pattern built from the template on that line
    rpc,          \* "ready" before the line is rendered and matched, "done" after
    kargs,        \* dual_spec.py: the argument mapping of a step
    ktext,        \* the argument list that _render_dal_step writes for it
    kparsed,      \* what _parse_kwargs returns for that list
    kpc,          \* "ready" before the list is rendered and parsed, "done" after
    slines,       \* parser.py: Lexer.lines, the lines of the content
    si,           \* the line that Lexer.tokenize looks at next (the first line is 1)
    stokens,      \* the tokens that Lexer.tokenize has appended
    sparser,      \* pos, scenarios and errors of the Parser
    sresult,      \* the ParseResult that parse_gwt_string returns
    spc           \* "tokenize" and "parse" while the loops run, "done" after the return

extractVars == <<scenario, extracted, epc>>
graphVars == <<parsed, graph, merged, gop, nupd, handed>>
triageVars == <<specs, templates, gapsFile, report, tcmd, settled>>
dalVars == <<dalText, dalOut, dpc, dalGwt, xpc>>
gwtVars == <<gwtText, gwtOut, gpc>>
compileVars == <<inputFile, fs, fsBefore, raised, runs>>
sessionVars == <<sessionFile, draftFile, artifacts, vocabExists, lastCall, calls>>
gapsVars == <<gbuilt, gnew, ggraph, gtriaged, gbase, gout, grerun, apc>>
parseVars == <<pinput, presult, ppc>>
vocabVars == <<vsource, vresult, vpc>>
legacyVars == <<ltext, lfile, lresult, lpc>>
renderVars == <<rentry, rargs, rline, rmatch, rpc>>
kwargsVars == <<kargs, ktext, kparsed, kpc>>
stepVars == <<slines, si, stokens, sparser, sresult, spc>>
laterVars == <<gapsVars, parseVars, vocabVars, legacyVars, renderVars, kwargsVars, stepVars>>
vars == <<scenario, extracted, epc, parsed, graph, merged, gop, nupd, handed,
          specs, templates, gapsFile, report, tcmd, settled, dalText, dalOut, dpc,
          dalGwt, xpc, gwtText, gwtOut, gpc, inputFile, fs, fsBefore, raised, runs,
          sessionFile, draftFile, artifacts, vocabExists, lastCall, calls,
          gbuilt, gnew, ggraph, gtriaged, gbase, gout, grerun, apc,
          pinput, presult, ppc, vsource, vresult, vpc,
          ltext, lfile, lresult, lpc, rentry, rargs, rline, rmatch, rpc,
          kargs, ktext, kparsed, kpc, slines, si, stokens, sparser, sresult, spc>>

\* the variables a specification of one part leaves alone
notExtract == <<graphVars, triageVars, dalVars, gwtVars, compileVars, sessionVars, laterVars>>
notGraph == <<extractVars, triageVars, dalVars, gwtVars, compileVars, sessionVars, laterVars>>
notTriage == <<extractVars, graphVars, dalVars, gwtVars, compileVars, sessionVars, laterVars>>
notDal == <<extractVars, graphVars, triageVars, gwtVars, compileVars, sessionVars, laterVars>>
notGwt == <<extractVars, graphVars, triageVars, dalVars, compileVars, sessionVars, laterVars>>
notCompile == <<extractVars, graphVars, triageVars, dalVars, gwtVars, sessionVars, laterVars>>
notSession == <<extractVars, graphVars, triageVars, dalVars, gwtVars, compileVars, laterVars>>
earlierVars == <<extractVars, graphVars, triageVars, dalVars, gwtVars, compileVars, sessionVars>>
notGaps == <<earlierVars, parseVars, vocabVars, legacyVars, renderVars, kwargsVars, stepVars>>
notParse == <<earlierVars, gapsVars, vocabVars, legacyVars, renderVars, kwargsVars, stepVars>>
notVocab == <<earlierVars, gapsVars, parseVars, legacyVars, renderVars, kwargsVars, stepVars>>
notLegacy == <<earlierVars, gapsVars, parseVars, vocabVars, renderVars, kwargsVars, stepVars>>
notRender == <<earlierVars, gapsVars, parseVars, vocabVars, legacyVars, kwargsVars, stepVars>>
notKwargs == <<earlierVars, gapsVars, parseVars, vocabVars, legacyVars, renderVars, stepVars>>
notSteps == <<earlierVars, gapsVars, parseVars, vocabVars, legacyVars, renderVars, kwargsVars>>

(***************************************************************************)
(* Sequence helpers                                                        *)
(***************************************************************************)
Range(s) == {s[i] : i \in 1..Len(s)}

RECURSIVE SeqsUpTo(_, _)
\* all sequences over S of length at most n
SeqsUpTo(S, n) ==
    IF n = 0 THEN {<<>>}
    ELSE LET shorter == SeqsUpTo(S, n - 1)
         IN shorter \cup {Append(s, x) : s \in {t \in shorter : Len(t) = n - 1}, x \in S}

\* Python's sorted(set): the members of S in the order of the sequence `order`
SortedBy(order, S) == SelectSeq(order, LAMBDA x : x \in S)

Count(s, x) == Cardinality({i \in 1..Len(s) : s[i] = x})

\* the element of a one-element set: Only({F(v) : v \in {e}}) evaluates e once for all the
\* uses of v in F(v), as a local variable that is assigned once
Only(S) == CHOOSE x \in S : TRUE

\* Python's s[:n]
Take(s, n) == SubSeq(s, 1, IF Len(s) < n THEN Len(s) ELSE n)

(***************************************************************************)
(* Inputs of the graph builder                                             *)
(***************************************************************************)
\* State labels and event texts, each listed in Python's string order.  The first
\* label and the first event are the texts of the template that the triage command
\* writes.
LabelOrder == <<"<expected outcome>", "a", "b", "c">>
EventOrder == <<"<error or missing event>", "do not pay", "pay", "pay fails">>

\* gaps.py: the description of each kind of gap
DeadEndDescription(label) == "State \"" \o label \o "\" has no outbound transitions"

UnreachableDescription(label) ==
    "State \"" \o label \o "\" has no inbound transitions from any entry point"

MissingErrorDescription(state, n) ==
    "State \"" \o state \o "\" handles " \o ToString(n) \o " events but has no error transition"

ContradictionDescription(from_state, event, n) ==
    "Contradiction: \"" \o from_state \o "\" + \"" \o event \o "\" leads to "
        \o ToString(n) \o " different outcomes"

MissingNegativeDescription(state) ==
    "State \"" \o state \o "\" only has positive scenarios. Missing negative cases."

RECURSIVE Flatten(_)
Flatten(seqs) == IF seqs = <<>> THEN <<>> ELSE Head(seqs) \o Flatten(Tail(seqs))

\* Every description over LabelOrder and EventOrder with a one-digit count, in
\* Python's string order (an event is followed by a quote there, which sorts after
\* the space of "pay fails").
DescriptionOrder ==
    LET events == <<"<error or missing event>", "do not pay", "pay fails", "pay">>
    IN Flatten([i \in 1..Len(LabelOrder) |->
           Flatten([j \in 1..Len(events) |->
               [n \in 1..8 |-> ContradictionDescription(LabelOrder[i], events[j], n + 1)]])])
       \o Flatten([i \in 1..Len(LabelOrder) |->
              [n \in 1..8 |-> MissingErrorDescription(LabelOrder[i], n + 1)]
              \o << UnreachableDescription(LabelOrder[i]),
                    DeadEndDescription(LabelOrder[i]),
                    MissingNegativeDescription(LabelOrder[i]) >>])

\* cli.py: the title of the template scenario written for a gap
TemplateTitle(description) == "TODO: Address gap - " \o description

\* Scenario titles in Python's string order
TitleOrder ==
    <<"S1", "S2">> \o [i \in 1..Len(DescriptionOrder) |-> TemplateTitle(DescriptionOrder[i])]
Labels == {"a", "b", "c"}
Events == {"do not pay", "pay", "pay fails"}
Titles == {"S1", "S2"}

\* clauses per section of the single scenario given to extract_states_and_transitions
MaxSection == 2
\* scenarios handed to the graph builder in one run: those of the ParseResult plus
\* those of the incremental updates that follow
MaxScenarios == 3

\* models.Scenario; a Clause is modelled by its text (graph.py reads nothing else)
Scenario(title, givens, whens, thens) ==
    [title |-> title, givens |-> givens, whens |-> whens, thens |-> thens]

\* the scenarios with at most n clauses in each section
ScenariosUpTo(n) ==
    [title : Titles,
     givens : SeqsUpTo(Labels, n),
     whens : SeqsUpTo(Events, n),
     thens : SeqsUpTo(Labels, n)]

\* the scenarios with one GIVEN, one WHEN and one THEN
GraphEvents == {"pay", "pay fails"}
SimpleScenarios ==
    {Scenario(t, <<g>>, <<w>>, <<th>>) :
        t \in Titles, g \in Labels, w \in GraphEvents, th \in Labels}

(***************************************************************************)
(* graph.py                                                                *)
(***************************************************************************)
State(label, sources) == [label |-> label, source_scenarios |-> sources]

Transition(event, from, to, title) ==
    [event |-> event, from_state |-> from, to_state |-> to, source_scenario |-> title]

RECURSIVE ThenLoop(_, _, _, _)
\* for then_label in then_labels: transitions.append(...)
ThenLoop(event, given, thens, title) ==
    IF thens = <<>> THEN <<>>
    ELSE <<Transition(event, given, Head(thens), title)>>
         \o ThenLoop(event, given, Tail(thens), title)

RECURSIVE GivenLoopPaired(_, _, _, _)
\* positional pairing of GIVENs and THENs instead of every pair
GivenLoopPaired(event, givens, thens, title) ==
    IF givens = <<>> \/ thens = <<>> THEN <<>>
    ELSE <<Transition(event, Head(givens), Head(thens), title)>>
         \o GivenLoopPaired(event, Tail(givens), Tail(thens), title)

RECURSIVE GivenLoop(_, _, _, _)
\* for given_label in given_labels: ...
GivenLoop(event, givens, thens, title) ==
    IF givens = <<>> THEN <<>>
    ELSE ThenLoop(event, Head(givens), thens, title)
         \o GivenLoop(event, Tail(givens), thens, title)

RECURSIVE WhenLoop(_, _, _, _)
\* for when_clause in scenario.whens: ...
WhenLoop(whens, givens, thens, title) ==
    IF whens = <<>> THEN <<>>
    ELSE GivenLoop(Head(whens), givens, thens, title)
         \o WhenLoop(Tail(whens), givens, thens, title)

extract_states_and_transitions(sc) ==
    [states |-> [i \in 1..Len(sc.givens) |-> State(sc.givens[i], <<sc.title>>)]
                \o [i \in 1..Len(sc.thens) |-> State(sc.thens[i], <<sc.title>>)],
     transitions |-> WhenLoop(sc.whens, sc.givens, sc.thens, sc.title)]

\* position of a label among the keys of a states dict (0 when absent)
KeyIndex(states, label) ==
    IF \E i \in 1..Len(states) : states[i].label = label
    THEN CHOOSE i \in 1..Len(states) : states[i].label = label
    ELSE 0

RECURSIVE MergeStatesKeepFirst(_, _)
\* a label met again keeps the state it had: the sources are not merged
MergeStatesKeepFirst(all, new) ==
    IF new = <<>> THEN all
    ELSE MergeStatesKeepFirst(IF KeyIndex(all, Head(new).label) > 0 THEN all
                              ELSE Append(all, Head(new)),
                              Tail(new))

RECURSIVE MergeStates(_, _)
\* build_graph's loop over the states of one scenario: a dict keyed by label, in
\* insertion order; a key met again keeps its place and unions the sources, sorted
MergeStates(all, new) ==
    IF new = <<>> THEN all
    ELSE LET st == Head(new)
             k == KeyIndex(all, st.label)
             next ==
                IF k > 0
                THEN [all EXCEPT ![k] =
                        State(st.label,
                              SortedBy(TitleOrder,
                                       Range(all[k].source_scenarios)
                                           \cup Range(st.source_scenarios)))]
                ELSE Append(all, st)
         IN MergeStates(next, Tail(new))

\* the simple cycles of two or more nodes: a self-loop is not reported
SimpleCyclesWithoutLoops(nodes, edges) ==
    {c \in SeqsUpTo(nodes, Cardinality(nodes)) :
        /\ Len(c) > 1
        /\ \A i, j \in 1..Len(c) : i # j => c[i] # c[j]
        /\ \A i \in 1..Len(c) : <<c[i], c[(i % Len(c)) + 1]>> \in edges
        /\ \A i \in 2..Len(c) :
              KeyIndex([k \in 1..Len(LabelOrder) |-> [label |-> LabelOrder[k]]], c[1])
                < KeyIndex([k \in 1..Len(LabelOrder) |-> [label |-> LabelOrder[k]]], c[i])}

\* the simple directed cycles of the graph, each written from its first label in
\* LabelOrder
SimpleCycles(nodes, edges) ==
    {c \in SeqsUpTo(nodes, Cardinality(nodes)) :
        /\ Len(c) > 0
        /\ \A i, j \in 1..Len(c) : i # j => c[i] # c[j]
        /\ \A i \in 1..Len(c) : <<c[i], c[(i % Len(c)) + 1]>> \in edges
        /\ \A i \in 2..Len(c) :
              KeyIndex([k \in 1..Len(LabelOrder) |-> [label |-> LabelOrder[k]]], c[1])
                < KeyIndex([k \in 1..Len(LabelOrder) |-> [label |-> LabelOrder[k]]], c[i])}

RECURSIVE SetToSeq(_)
SetToSeq(S) ==
    IF S = {} THEN <<>>
    ELSE LET x == CHOOSE y \in S : TRUE IN <<x>> \o SetToSeq(S \ {x})

\* [sorted(c) for c in nx.simple_cycles(nxg)]; the order of the list is networkx's
\* and is not modelled: the list is kept in an arbitrary fixed order
ComputeCycles(states, transitions) ==
    LET nodes == {states[i].label : i \in 1..Len(states)}
                 \cup {transitions[i].from_state : i \in 1..Len(transitions)}
                 \cup {transitions[i].to_state : i \in 1..Len(transitions)}
        edges == {<<transitions[i].from_state, transitions[i].to_state>> :
                    i \in 1..Len(transitions)}
        cs == SetToSeq(SimpleCycles(nodes, edges))
    IN [i \in 1..Len(cs) |-> SortedBy(LabelOrder, Range(cs[i]))]

\* entry points taken as every source, also one that is a target elsewhere
EntryPointsAllSources(transitions) ==
    SortedBy(LabelOrder, {transitions[i].from_state : i \in 1..Len(transitions)})

\* entry points: sorted(given_labels - then_labels)
EntryPoints(transitions) ==
    LET then_labels == {transitions[i].to_state : i \in 1..Len(transitions)}
        given_labels == {transitions[i].from_state : i \in 1..Len(transitions)}
    IN SortedBy(LabelOrder, given_labels \ then_labels)

\* terminal states: sorted(then_labels - given_labels)
TerminalStates(transitions) ==
    LET then_labels == {transitions[i].to_state : i \in 1..Len(transitions)}
        given_labels == {transitions[i].from_state : i \in 1..Len(transitions)}
    IN SortedBy(LabelOrder, then_labels \ given_labels)

GraphModel(states, transitions) ==
    [states |-> states,
     transitions |-> transitions,
     entry_points |-> EntryPoints(transitions),
     terminal_states |-> TerminalStates(transitions),
     cycles |-> ComputeCycles(states, transitions)]

RECURSIVE BuildLoop(_, _, _)
\* build_graph's loop over parse_result.scenarios
BuildLoop(scs, all_states, all_transitions) ==
    IF scs = <<>> THEN [states |-> all_states, transitions |-> all_transitions]
    ELSE LET ex == extract_states_and_transitions(Head(scs))
         IN BuildLoop(Tail(scs),
                      MergeStates(all_states, ex.states),
                      all_transitions \o ex.transitions)

build_graph(scs) ==
    LET acc == BuildLoop(scs, <<>>, <<>>)
    IN GraphModel(acc.states, acc.transitions)

RECURSIVE OverwriteStates(_, _)
\* merged_states[label] = state, for each state of the new graph
OverwriteStates(all, new) ==
    IF new = <<>> THEN all
    ELSE LET st == Head(new)
             k == KeyIndex(all, st.label)
         IN OverwriteStates(IF k > 0 THEN [all EXCEPT ![k] = st] ELSE Append(all, st),
                            Tail(new))

update_graph_incremental(existing, new_scenarios) ==
    LET titles == {new_scenarios[i].title : i \in 1..Len(new_scenarios)}
        remaining_transitions ==
            SelectSeq(existing.transitions, LAMBDA t : t.source_scenario \notin titles)
        new_graph == build_graph(new_scenarios)
        merged_states == OverwriteStates(existing.states, new_graph.states)
        all_transitions == remaining_transitions \o new_graph.transitions
    IN GraphModel(merged_states, all_transitions)

(***************************************************************************)
(* gaps.py                                                                 *)
(***************************************************************************)
\* "error" in e.lower() or "fail" in e.lower() or "invalid" in e.lower(), for the
\* event texts of EventOrder
HasErrorWord(e) == e \in {"<error or missing event>", "pay fails"}

\* the same test with "reject", "deny" and "not" added
HasNegativeWord(e) == e \in {"<error or missing event>", "do not pay", "pay fails"}

\* models.Gap
Gap(type, severity, description, question, states, transitions) ==
    [gap_type |-> type, severity |-> severity, description |-> description,
     question |-> question, states |-> states, transitions |-> transitions,
     triage_status |-> "None"]

\* the triaged map is never consulted
KeepTriaged(gaps, triaged) == gaps

\* `if desc in triaged: continue`
NotTriaged(gaps, triaged) == SelectSeq(gaps, LAMBDA g : g.description \notin triaged)

\* a list of keys in place of a dict: a key met again is listed again
AllOccurrences(keys) == keys

RECURSIVE FirstOccurrences(_)
\* the keys of a dict filled by setdefault over a list, in insertion order
FirstOccurrences(keys) ==
    IF keys = <<>> THEN <<>>
    ELSE LET rest == FirstOccurrences(SelectSeq(Tail(keys), LAMBDA k : k # Head(keys)))
         IN <<Head(keys)>> \o rest

StateLabels(g) == [i \in 1..Len(g.states) |-> g.states[i].label]

\* dead ends taken among the states without inbound transitions
find_dead_ends_sources(g, triaged) ==
    LET outbound == {g.transitions[i].from_state : i \in 1..Len(g.transitions)}
        inbound == {g.transitions[i].to_state : i \in 1..Len(g.transitions)}
        labels == SelectSeq(StateLabels(g), LAMBDA l : l \notin outbound /\ l \notin inbound)
    IN NotTriaged([i \in 1..Len(labels) |->
                      Gap("dead-end", "medium",
                          DeadEndDescription(labels[i]),
                          "Is this an intentional terminal state?",
                          <<labels[i]>>, <<>>)],
                  triaged)

find_dead_ends(g, triaged) ==
    LET outbound == {g.transitions[i].from_state : i \in 1..Len(g.transitions)}
        inbound == {g.transitions[i].to_state : i \in 1..Len(g.transitions)}
        labels == SelectSeq(StateLabels(g), LAMBDA l : l \notin outbound /\ l \in inbound)
    IN NotTriaged([i \in 1..Len(labels) |->
                      Gap("dead-end", "medium",
                          DeadEndDescription(labels[i]),
                          "Is this an intentional terminal state?",
                          <<labels[i]>>, <<>>)],
                  triaged)

find_unreachable(g, triaged) ==
    LET inbound == {g.transitions[i].to_state : i \in 1..Len(g.transitions)}
        sources == {g.transitions[i].from_state : i \in 1..Len(g.transitions)}
        labels == SelectSeq(StateLabels(g),
                            LAMBDA l : /\ l \notin inbound
                                       /\ l \notin Range(g.entry_points)
                                       /\ l \notin sources)
    IN NotTriaged([i \in 1..Len(labels) |->
                      Gap("unreachable", "high",
                          UnreachableDescription(labels[i]),
                          "How does the system reach this state?",
                          <<labels[i]>>, <<>>)],
                  triaged)

\* state_events: the from_states in insertion order
EventStates(g) ==
    FirstOccurrences([i \in 1..Len(g.transitions) |-> g.transitions[i].from_state])

\* state_events[state]: the events of the transitions leaving state, in list order
EventsOf(g, state) ==
    LET ts == SelectSeq(g.transitions, LAMBDA t : t.from_state = state)
    IN [i \in 1..Len(ts) |-> ts[i].event]

find_missing_error_transitions(g, triaged) ==
    LET states == SelectSeq(EventStates(g),
                            LAMBDA st : /\ ~ \E e \in Range(EventsOf(g, st)) : HasErrorWord(e)
                                        /\ Len(EventsOf(g, st)) >= 2)
    IN NotTriaged([i \in 1..Len(states) |->
                      Gap("missing-error", "low",
                          MissingErrorDescription(states[i], Len(EventsOf(g, states[i]))),
                          "What happens when a " \o states[i] \o " encounters an error?",
                          <<states[i]>>,
                          EventsOf(g, states[i]))],
                  triaged)

find_contradictions(g, triaged) ==
    LET keys == FirstOccurrences([i \in 1..Len(g.transitions) |->
                    <<g.transitions[i].from_state, g.transitions[i].event>>])
        group(key) == SelectSeq(g.transitions,
                                LAMBDA t : t.from_state = key[1] /\ t.event = key[2])
        to_states(key) == {group(key)[i].to_state : i \in 1..Len(group(key))}
        hits == SelectSeq(keys, LAMBDA key : Cardinality(to_states(key)) > 1)
        named(key) == SelectSeq(group(key), LAMBDA t : t.source_scenario # "")
    IN NotTriaged([i \in 1..Len(hits) |->
                      Gap("contradiction", "high",
                          ContradictionDescription(hits[i][1], hits[i][2],
                                                   Cardinality(to_states(hits[i]))),
                          "These scenarios have the same precondition and event "
                              \o "but different outcomes. Is there a missing condition?",
                          <<hits[i][1]>> \o SortedBy(LabelOrder, to_states(hits[i])),
                          [k \in 1..Len(named(hits[i])) |->
                              hits[i][2] \o " (from " \o named(hits[i])[k].source_scenario
                                  \o ")"])],
                  triaged)

RECURSIVE Suggestions(_)
\* two questions per event
Suggestions(events) ==
    IF events = <<>> THEN <<>>
    ELSE << "What happens when " \o Head(events) \o " fails?",
            "What happens when " \o Head(events) \o " with invalid data?" >>
         \o Suggestions(Tail(events))

RECURSIVE Join(_)
\* "\n".join
Join(lines) ==
    IF lines = <<>> THEN ""
    ELSE IF Len(lines) = 1 THEN Head(lines)
    ELSE Head(lines) \o "\n" \o Join(Tail(lines))

find_missing_negatives(g, triaged) ==
    LET states == SelectSeq(EventStates(g),
                            LAMBDA st : ~ \E e \in Range(EventsOf(g, st)) : HasNegativeWord(e))
    IN NotTriaged([i \in 1..Len(states) |->
                      Gap("missing-negative", "medium",
                          MissingNegativeDescription(states[i]),
                          Join(Take(Suggestions(EventsOf(g, states[i])), 3)),
                          <<states[i]>>, <<>>)],
                  triaged)

\* a missing-negative gap held back for a state that has a missing-error gap
analyze_gaps_suppressing(g, triaged) ==
    LET errors == find_missing_error_transitions(g, triaged)
    IN find_dead_ends(g, triaged)
       \o find_unreachable(g, triaged)
       \o errors
       \o find_contradictions(g, triaged)
       \o SelectSeq(find_missing_negatives(g, triaged),
                    LAMBDA n : \A i \in 1..Len(errors) : errors[i].states # n.states)

analyze_gaps(g, triaged) ==
    find_dead_ends(g, triaged)
    \o find_unreachable(g, triaged)
    \o find_missing_error_transitions(g, triaged)
    \o find_contradictions(g, triaged)
    \o find_missing_negatives(g, triaged)

\* save_gaps then load_gaps: the file keeps every field of every gap, and a missing
\* file loads as the empty list
load_gaps(file) == file

save_gaps(gaps) == gaps

\* the descriptions of the gaps on file whose status is intentional or out-of-scope
load_triaged(file) ==
    {load_gaps(file)[i].description :
        i \in {k \in 1..Len(file) : load_gaps(file)[k].triage_status \in {"intentional", "out-of-scope"}}}

(***************************************************************************)
(* dual_spec.py: text                                                      *)
(*                                                                         *)
(* A Python string is a sequence of atoms.  An atom is a piece of text     *)
(* that no operation of the compiler looks inside: a punctuation character *)
(* or a whole word.  A text file is the sequence of its lines.             *)
(***************************************************************************)
\* str.isspace for one atom
IsSpace(a) == a \in {" "}

RECURSIVE LStrip(_)
LStrip(s) == IF s # <<>> /\ IsSpace(Head(s)) THEN LStrip(Tail(s)) ELSE s

RECURSIVE RStrip(_)
RStrip(s) == IF s # <<>> /\ IsSpace(s[Len(s)]) THEN RStrip(SubSeq(s, 1, Len(s) - 1)) ELSE s

\* str.strip
Strip(s) == LStrip(RStrip(s))

StartsWith(s, a) == s # <<>> /\ Head(s) = a

EndsWith(s, a) == s # <<>> /\ s[Len(s)] = a

RECURSIVE Replace1(_, _, _)
\* str.replace of the one-atom substring a
Replace1(s, a, rep) ==
    IF s = <<>> THEN <<>>
    ELSE (IF Head(s) = a THEN rep ELSE <<Head(s)>>) \o Replace1(Tail(s), a, rep)

RECURSIVE Replace2(_, _, _, _)
\* str.replace of the two-atom substring a b: leftmost first, without overlap
Replace2(s, a, b, rep) ==
    IF Len(s) < 2 THEN s
    ELSE IF s[1] = a /\ s[2] = b THEN rep \o Replace2(Tail(Tail(s)), a, b, rep)
    ELSE <<s[1]>> \o Replace2(Tail(s), a, b, rep)

RECURSIVE Str(_)
\* the string as one atom ("".join)
Str(s) == IF s = <<>> THEN "" ELSE Head(s) \o Str(Tail(s))

\* the index of the first a in s, 0 if there is none (str.find + 1)
Find(s, a) == IF \E i \in 1..Len(s) : s[i] = a
              THEN CHOOSE i \in 1..Len(s) : s[i] = a /\ \A j \in 1..(i - 1) : s[j] # a
              ELSE 0

\* str.lower for one atom
Lower(a) ==
    CASE a = "TRUE" -> "true"
      [] a = "FALSE" -> "false"
      [] a = "F" -> "f"
      [] a = "S" -> "s"
      [] a = "T" -> "t"
      [] a = "X" -> "x"
      [] a = "Scenario" -> "scenario"
      [] a = "Interrogation" -> "interrogation"
      [] OTHER -> a

\* atoms that start with ";"
CommentAtoms == {";", ";==============================================================="}

\* the decimal digits, in order
DigitAtoms == <<"0", "1", "2", "3", "4", "5", "6", "7", "8", "9">>

DigitValue(a) == (CHOOSE i \in 1..Len(DigitAtoms) : DigitAtoms[i] = a) - 1

\* atoms matching [a-z][a-z0-9]*
LowerWords == {"s", "t", "x", "file", "target", "code", "specs", "true", "false", "junk",
               "feature", "scenario", "compile", "exits", "txt", "dal", "md", "y", "a",
               "interrogation", "draft", "for", "service"}

\* atoms matching [A-Za-z][A-Za-z0-9]*
Words == LowerWords \cup {"S", "T", "X", "F", "TRUE", "FALSE", "Scenario", "FEATURE", "SCENARIO",
                          "IMPORT", "FACT", "DO", "EXPECT", "Interrogation"}

\* atoms matching [a-z][a-z0-9_]* that are looked up whole: the symbols of the vocabulary
Symbols == {"no_users", "spec_file", "compile", "compiled_ok", "exits"}

\* re.fullmatch(r"[a-z][a-z0-9_]*", s)
IsLowerIdentifier(s) ==
    /\ s # <<>>
    /\ s[1] \in LowerWords
    /\ \A i \in 2..Len(s) : s[i] \in LowerWords \cup Range(DigitAtoms) \cup {"_"}

\* re.fullmatch(r"[A-Za-z_][A-Za-z0-9_]*", s)
IsIdentifier(s) ==
    /\ s # <<>>
    /\ s[1] \in Words \cup {"_"}
    /\ \A i \in 2..Len(s) : s[i] \in Words \cup Range(DigitAtoms) \cup {"_"}

(***************************************************************************)
(* dual_spec.py: values, IR and vocabulary                                 *)
(***************************************************************************)
\* A Python value of an argument: str, int or bool (a bool is also the int 1 or 0)
StrValue(s) == [type |-> "str", text |-> s, num |-> 0]

IntValue(n) == [type |-> "int", text |-> <<>>, num |-> n]

BoolValue(b) == [type |-> "bool", text |-> <<>>, num |-> IF b THEN 1 ELSE 0]

\* Python's ==, under which True == 1 and False == 0
PyEq(v, w) ==
    IF v.type = "str" \/ w.type = "str" THEN v = w ELSE v.num = w.num

StepIR(kind, symbol, args) == [kind |-> kind, symbol |-> symbol, args |-> args]

ScenarioIR(name, imports, givens, whens, thens) ==
    [name |-> name, imports |-> imports, givens |-> givens, whens |-> whens, thens |-> thens]

FeatureIR(feature_id, scenarios) == [feature_id |-> feature_id, scenarios |-> scenarios]

\* the empty dict
EmptyDict == [k \in {} |-> StrValue(<<>>)]

\* d[k] = v
DictSet(d, k, v) == [x \in DOMAIN d \cup {k} |-> IF x = k THEN v ELSE d[x]]

ArgSpec(name, type_name) == [name |-> name, type_name |-> type_name]

\* One element of a GWT regex or render template: a literal atom or a named group /
\* placeholder
Lit(a) == [lit |-> a, group |-> "", lazy |-> FALSE]

\* a named group (?P<name>.+) of a match pattern, or the placeholder {name} of a template
Group(name) == [lit |-> "", group |-> name, lazy |-> FALSE]

\* the named group (?P<name>.+?) that _build_regex_from_render writes
LazyGroup(name) == [lit |-> "", group |-> name, lazy |-> TRUE]

\* a VocabEntry as _build_vocab_entry returns it, before the pattern synthesized from
\* the render template is appended
VocabEntry(category, symbol, args, match, render, default_args) ==
    [category |-> category, symbol |-> symbol, args |-> args, match |-> match,
     gwt_render |-> render, default_args |-> default_args]

\* The vocabulary file of the model.
\*   types:  text (string), scenario_name (string with pattern [a-z][a-z0-9_]*),
\*           code (enum of the ints 0 and 7)
\*   facts:  no_users()             "GIVEN no registered users."
\*           spec_file(file: text)  "GIVEN a spec file {file}."
\*   actions: compile(target: text), default target "specs"
\*           "WHEN the user compiles."  /  "WHEN the user compiles {target}."
\*   expectations: compiled_ok()    "THEN compilation succeeds."
\*           exits(code: code)      "THEN the exit code is {code}."
VocabTypes ==
    [text |-> [kind |-> "string", pattern |-> "", values |-> {}],
     scenario_name |-> [kind |-> "string", pattern |-> "^[a-z][a-z0-9_]*$", values |-> {}],
     code |-> [kind |-> "enum", pattern |-> "", values |-> {IntValue(0), IntValue(7)}]]

VocabEntries ==
    << VocabEntry("fact", "no_users", <<>>,
                  << <<Lit("GIVEN "), Lit("no registered users"), Lit(".")>> >>,
                  <<Lit("GIVEN "), Lit("no registered users"), Lit(".")>>,
                  EmptyDict),
       VocabEntry("fact", "spec_file", <<ArgSpec("file", "text")>>,
                  << <<Lit("GIVEN "), Lit("a spec file"), Lit(" "), Group("file"), Lit(".")>> >>,
                  <<Lit("GIVEN "), Lit("a spec file"), Lit(" "), Group("file"), Lit(".")>>,
                  EmptyDict),
       VocabEntry("action", "compile", <<ArgSpec("target", "text")>>,
                  << <<Lit("WHEN "), Lit("the user compiles"), Lit(".")>>,
                     <<Lit("WHEN "), Lit("the user compiles"), Lit(" "), Group("target"),
                       Lit(".")>> >>,
                  <<Lit("WHEN "), Lit("the user compiles"), Lit(" "), Group("target"), Lit(".")>>,
                  [target |-> StrValue(<<"specs">>)]),
       VocabEntry("expectation", "compiled_ok", <<>>,
                  << <<Lit("THEN "), Lit("compilation succeeds"), Lit(".")>> >>,
                  <<Lit("THEN "), Lit("compilation succeeds"), Lit(".")>>,
                  EmptyDict),
       VocabEntry("expectation", "exits", <<ArgSpec("code", "code")>>,
                  << <<Lit("THEN "), Lit("the exit code is"), Lit(" "), Group("code"),
                       Lit(".")>> >>,
                  <<Lit("THEN "), Lit("the exit code is"), Lit(" "), Group("code"), Lit(".")>>,
                  EmptyDict) >>

\* the Vocab returned by load_vocab for that file
ModelVocab == [types |-> VocabTypes, entries |-> VocabEntries]

\* vocab.entries_by_kind[kind]
EntriesByKind(vocab, kind) == SelectSeq(vocab.entries, LAMBDA e : e.category = kind)

\* vocab.entries_by_symbol_kind.get((kind, symbol)) is not None
HasEntry(vocab, kind, symbol) ==
    \E i \in 1..Len(vocab.entries) :
        vocab.entries[i].category = kind /\ vocab.entries[i].symbol = symbol

\* vocab.entries_by_symbol_kind[(kind, symbol)]
EntryOf(vocab, kind, symbol) ==
    vocab.entries[CHOOSE i \in 1..Len(vocab.entries) :
                      vocab.entries[i].category = kind /\ vocab.entries[i].symbol = symbol]

\* re.fullmatch of a type's pattern on a string
PatternMatches(pattern, s) ==
    CASE pattern = "^[a-z][a-z0-9_]*$" -> IsLowerIdentifier(s)
      [] OTHER -> FALSE

\* an enum type that takes any value
validate_type_open_enum(vocab, type_name, value) ==
    /\ type_name \in DOMAIN vocab.types
    /\ LET type_spec == vocab.types[type_name]
       IN CASE type_spec.kind = "string" ->
                   /\ value.type = "str"
                   /\ type_spec.pattern # "" => PatternMatches(type_spec.pattern, value.text)
            [] type_spec.kind = "enum" -> TRUE
            [] OTHER -> FALSE

\* _validate_type: TRUE when it returns, FALSE when it raises
validate_type(vocab, type_name, value) ==
    /\ type_name \in DOMAIN vocab.types
    /\ LET type_spec == vocab.types[type_name]
       IN CASE type_spec.kind = "string" ->
                   /\ value.type = "str"
                   /\ type_spec.pattern # "" => PatternMatches(type_spec.pattern, value.text)
            [] type_spec.kind = "enum" -> \E w \in type_spec.values : PyEq(value, w)
            [] OTHER -> FALSE

\* _validate_step_args: TRUE when it returns, FALSE when it raises
validate_step_args(vocab, entry, args) ==
    LET required == {entry.args[i].name : i \in 1..Len(entry.args)}
    IN /\ required \subseteq DOMAIN args
       /\ DOMAIN args \subseteq required
       /\ \A i \in 1..Len(entry.args) :
              validate_type(vocab, entry.args[i].type_name, args[entry.args[i].name])

(***************************************************************************)
(* dual_spec.py: DAL                                                       *)
(***************************************************************************)
\* the result of a parse: the IR, or ok = FALSE when DualSpecError was raised
Parsed(ir) == [ok |-> TRUE, ir |-> ir]

ParseError == [ok |-> FALSE, ir |-> FeatureIR(<<>>, <<>>)]

RECURSIVE IntOf(_)
\* int() of a digit string
IntOf(digits) ==
    IF digits = <<>> THEN 0
    ELSE 10 * IntOf(SubSeq(digits, 1, Len(digits) - 1)) + DigitValue(digits[Len(digits)])

\* re.fullmatch(r"-?[0-9]+", raw)
IsIntLiteral(raw) ==
    LET digits == IF StartsWith(raw, "-") THEN Tail(raw) ELSE raw
    IN digits # <<>> /\ \A i \in 1..Len(digits) : digits[i] \in Range(DigitAtoms)

\* _parse_value: [ok, value]
parse_value(raw) ==
    IF Len(raw) = 1 /\ Lower(raw[1]) = "true" THEN [ok |-> TRUE, value |-> BoolValue(TRUE)]
    ELSE IF Len(raw) = 1 /\ Lower(raw[1]) = "false" THEN [ok |-> TRUE, value |-> BoolValue(FALSE)]
    ELSE IF IsIntLiteral(raw)
         THEN [ok |-> TRUE,
               value |-> IntValue(IF StartsWith(raw, "-") THEN 0 - IntOf(Tail(raw))
                                  ELSE IntOf(raw))]
    ELSE IF StartsWith(raw, "\"") /\ EndsWith(raw, "\"")
         THEN LET inner == SubSeq(raw, 2, Len(raw) - 1)
              IN [ok |-> TRUE,
                  value |-> StrValue(Replace2(Replace2(inner, "\\", "\"", <<"\"">>),
                                              "\\", "\\", <<"\\">>))]
    ELSE [ok |-> FALSE, value |-> StrValue(<<>>)]

RECURSIVE SplitPartsAtEveryComma(_, _, _, _, _)
\* _parse_kwargs that splits at every comma, inside a string too
SplitPartsAtEveryComma(blob, parts, current, in_string, escaped) ==
    IF blob = <<>>
    THEN IF current # <<>> THEN Append(parts, Strip(current)) ELSE parts
    ELSE IF Head(blob) = ","
    THEN SplitPartsAtEveryComma(Tail(blob), Append(parts, Strip(current)), <<>>, FALSE, FALSE)
    ELSE SplitPartsAtEveryComma(Tail(blob), parts, Append(current, Head(blob)), FALSE, FALSE)

RECURSIVE SplitParts(_, _, _, _, _)
\* _parse_kwargs, the loop over the characters of blob: the parts between the commas
\* that are outside double-quoted strings
SplitParts(blob, parts, current, in_string, escaped) ==
    IF blob = <<>>
    THEN IF current # <<>> THEN Append(parts, Strip(current)) ELSE parts
    ELSE LET ch == Head(blob)
             rest == Tail(blob)
         IN IF in_string
            THEN IF escaped THEN SplitParts(rest, parts, Append(current, ch), TRUE, FALSE)
                 ELSE IF ch = "\\" THEN SplitParts(rest, parts, Append(current, ch), TRUE, TRUE)
                 ELSE IF ch = "\"" THEN SplitParts(rest, parts, Append(current, ch), FALSE, FALSE)
                 ELSE SplitParts(rest, parts, Append(current, ch), TRUE, FALSE)
            ELSE IF ch = "\"" THEN SplitParts(rest, parts, Append(current, ch), TRUE, escaped)
            ELSE IF ch = "," THEN SplitParts(rest, Append(parts, Strip(current)), <<>>, FALSE, escaped)
            ELSE SplitParts(rest, parts, Append(current, ch), FALSE, escaped)

RECURSIVE ParseParts(_, _)
\* _parse_kwargs, the loop over the parts: [ok, args]
ParseParts(parts, acc) ==
    IF parts = <<>> THEN [ok |-> TRUE, args |-> acc]
    ELSE LET part == Head(parts)
             eq == Find(part, "=")
             key == Strip(SubSeq(part, 1, eq - 1))
             raw_value == Strip(SubSeq(part, eq + 1, Len(part)))
             value == parse_value(raw_value)
         IN IF eq = 0 \/ ~ value.ok THEN [ok |-> FALSE, args |-> EmptyDict]
            ELSE ParseParts(Tail(parts), DictSet(acc, Str(key), value.value))

\* _parse_kwargs: [ok, args]
parse_kwargs(text) ==
    LET blob == Strip(text)
    IN IF blob = <<>> THEN [ok |-> TRUE, args |-> EmptyDict]
       ELSE ParseParts(SplitParts(blob, <<>>, <<>>, FALSE, FALSE), EmptyDict)

RECURSIVE Statements(_, _, _)
\* parse_dal, the loop over the lines: blank and comment lines are skipped, the other
\* lines are joined with a space until one ends with "."; [ok, statements]
Statements(lines, buffer, statements) ==
    IF lines = <<>> THEN [ok |-> buffer = <<>>, statements |-> statements]
    ELSE LET stripped == Strip(Head(lines))
             joined == IF buffer = <<>> THEN stripped ELSE buffer \o <<" ">> \o stripped
         IN IF stripped = <<>> \/ Head(stripped) \in CommentAtoms
            THEN Statements(Tail(lines), buffer, statements)
            ELSE IF EndsWith(stripped, ".")
                 THEN Statements(Tail(lines), <<>>, Append(statements, joined))
                 ELSE Statements(Tail(lines), joined, statements)

\* re.fullmatch(keyword \s+ (identifier) \. , stmt), where lower says that the
\* identifier is [a-z][a-z0-9_]* and not [A-Za-z_][A-Za-z0-9_]*
KeywordMatches(stmt, keyword, lower) ==
    /\ Len(stmt) >= 4
    /\ stmt[1] = keyword
    /\ IsSpace(stmt[2])
    /\ LET rest == LStrip(Tail(stmt))
           ident == SubSeq(rest, 1, Len(rest) - 1)
       IN /\ EndsWith(rest, ".")
          /\ IF lower THEN IsLowerIdentifier(ident) ELSE IsIdentifier(ident)

\* m.group(1) of that match
KeywordGroup(stmt) == LET rest == LStrip(Tail(stmt)) IN SubSeq(rest, 1, Len(rest) - 1)

\* re.fullmatch(r"(FACT|DO|EXPECT)\s+([a-zA-Z_][a-zA-Z0-9_]*)\((.*)\)\.", stmt)
StepMatches(stmt) ==
    /\ Len(stmt) >= 6
    /\ stmt[1] \in {"FACT", "DO", "EXPECT"}
    /\ IsSpace(stmt[2])
    /\ LET rest == LStrip(Tail(stmt))
       IN /\ Len(rest) >= 4
          /\ rest[1] \in Symbols \cup Words
          /\ rest[2] = "("
          /\ rest[Len(rest) - 1] = ")"
          /\ rest[Len(rest)] = "."

\* m.groups() of that match: op, symbol, arg_blob
StepGroups(stmt) ==
    LET rest == LStrip(Tail(stmt))
    IN [op |-> stmt[1], symbol |-> rest[1], arg_blob |-> SubSeq(rest, 3, Len(rest) - 2)]

StepKind(op) == CASE op = "FACT" -> "fact" [] op = "DO" -> "action" [] op = "EXPECT" -> "expectation"

NoCurrent == ScenarioIR(<<>>, <<>>, <<>>, <<>>, <<>>)

RECURSIVE ParseStatements(_, _, _, _, _, _)
\* parse_dal, the loop over the statements; `open` says that current is not None
ParseStatements(statements, vocab, feature_id, scenarios, open, current) ==
    IF statements = <<>>
    THEN Parsed(FeatureIR(feature_id, IF open THEN Append(scenarios, current) ELSE scenarios))
    ELSE LET stmt == Head(statements)
             rest == Tail(statements)
         IN IF KeywordMatches(stmt, "FEATURE", FALSE)
            THEN ParseStatements(rest, vocab, KeywordGroup(stmt), scenarios, open, current)
            ELSE IF KeywordMatches(stmt, "SCENARIO", TRUE)
            THEN IF validate_type(vocab, "scenario_name", StrValue(KeywordGroup(stmt)))
                 THEN ParseStatements(rest, vocab, feature_id,
                                      IF open THEN Append(scenarios, current) ELSE scenarios,
                                      TRUE,
                                      ScenarioIR(KeywordGroup(stmt), <<>>, <<>>, <<>>, <<>>))
                 ELSE ParseError
            ELSE IF KeywordMatches(stmt, "IMPORT", TRUE)
            THEN IF open
                 THEN ParseStatements(rest, vocab, feature_id, scenarios, TRUE,
                                      [current EXCEPT !.imports = Append(@, KeywordGroup(stmt))])
                 ELSE ParseError
            ELSE IF StepMatches(stmt)
            THEN LET g == StepGroups(stmt)
                     step_kind == StepKind(g.op)
                     args == parse_kwargs(g.arg_blob)
                 IN IF ~ open \/ ~ HasEntry(vocab, step_kind, g.symbol) \/ ~ args.ok
                    THEN ParseError
                    ELSE IF ~ validate_step_args(vocab, EntryOf(vocab, step_kind, g.symbol),
                                                 args.args)
                    THEN ParseError
                    ELSE LET step == StepIR(step_kind, g.symbol, args.args)
                             next == CASE step_kind = "fact" ->
                                              [current EXCEPT !.givens = Append(@, step)]
                                       [] step_kind = "action" ->
                                              [current EXCEPT !.whens = Append(@, step)]
                                       [] OTHER ->
                                              [current EXCEPT !.thens = Append(@, step)]
                         IN ParseStatements(rest, vocab, feature_id, scenarios, TRUE, next)
            ELSE ParseError

\* parse_dal on the lines of the file
parse_dal(lines, vocab) ==
    LET statements == Statements(lines, <<>>, <<>>)
    IN IF ~ statements.ok THEN ParseError
       ELSE ParseStatements(statements.statements, vocab, <<"feature">>, <<>>, FALSE, NoCurrent)

RECURSIVE Digits(_)
Digits(n) ==
    IF n < 10 THEN <<DigitAtoms[n + 1]>>
    ELSE Digits(n \div 10) \o <<DigitAtoms[(n % 10) + 1]>>

\* str() of an int
IntStr(n) == IF n < 0 THEN <<"-">> \o Digits(0 - n) ELSE Digits(n)

\* _render_value with the backslashes left as they are
render_value_quotes_only(value) ==
    CASE value.type = "bool" -> IF value.num = 1 THEN <<"true">> ELSE <<"false">>
      [] value.type = "int" -> IntStr(value.num)
      [] OTHER -> <<"\"">> \o Replace1(value.text, "\"", <<"\\", "\"">>) \o <<"\"">>

\* _render_value
render_value(value) ==
    CASE value.type = "bool" -> IF value.num = 1 THEN <<"true">> ELSE <<"false">>
      [] value.type = "int" -> IntStr(value.num)
      [] OTHER -> <<"\"">>
                  \o Replace1(Replace1(value.text, "\\", <<"\\", "\\">>), "\"", <<"\\", "\"">>)
                  \o <<"\"">>

\* the argument names of the model in Python's string order
ArgNameOrder == <<"code", "file", "path", "target", "text", "title", "topic">>

\* _ordered_args: the names in the order they are rendered
ordered_args(entry, args) ==
    LET declared == SelectSeq([i \in 1..Len(entry.args) |-> entry.args[i].name],
                              LAMBDA n : n \in DOMAIN args)
    IN declared \o SortedBy(ArgNameOrder, DOMAIN args \ Range(declared))

RECURSIVE JoinWith(_, _)
\* sep.join(strings)
JoinWith(sep, strings) ==
    IF strings = <<>> THEN <<>>
    ELSE IF Len(strings) = 1 THEN Head(strings)
    ELSE Head(strings) \o sep \o JoinWith(sep, Tail(strings))

\* _render_dal_step, the argument list between the parentheses
render_arg_text(entry, args) ==
    LET names == ordered_args(entry, args)
    IN JoinWith(<<",", " ">>,
                [i \in 1..Len(names) |-> <<names[i], "=">> \o render_value(args[names[i]])])

\* _render_dal_step
render_dal_step(step, vocab) ==
    LET entry == EntryOf(vocab, step.kind, step.symbol)
        arg_text == render_arg_text(entry, step.args)
        prefix == CASE step.kind = "fact" -> "FACT"
                    [] step.kind = "action" -> "DO"
                    [] OTHER -> "EXPECT"
    IN <<prefix, " ", step.symbol, "(">> \o arg_text \o <<")", ".">>

RECURSIVE RStripLines(_)
\* "\n".join(lines).rstrip() + "\n", as the lines of the resulting text
RStripLines(lines) ==
    IF lines = <<>> THEN <<>>
    ELSE IF RStrip(lines[Len(lines)]) = <<>> THEN RStripLines(SubSeq(lines, 1, Len(lines) - 1))
    ELSE SubSeq(lines, 1, Len(lines) - 1) \o <<RStrip(lines[Len(lines)])>>

\* render_dal, the body of the loop for one scenario
render_dal_scenario(sc, vocab) ==
    LET steps == sc.givens \o sc.whens \o sc.thens
    IN << <<"SCENARIO", " ">> \o sc.name \o <<".">>, <<>> >>
       \o [i \in 1..Len(sc.imports) |-> <<"IMPORT", " ">> \o sc.imports[i] \o <<".">>]
       \o (IF sc.imports # <<>> THEN << <<>> >> ELSE <<>>)
       \o [i \in 1..Len(steps) |-> render_dal_step(steps[i], vocab)]
       \o << <<>> >>

\* render_dal: the lines of the canonical DAL text
render_dal(ir, vocab) ==
    RStripLines(<< <<";", " GENERATED FILE - DO NOT EDIT">>,
                   <<";", " source of truth is IR and vocab-driven compiler">>,
                   <<>>,
                   <<"FEATURE", " ">> \o ir.feature_id \o <<".">>,
                   <<>> >>
                \o Flatten([i \in 1..Len(ir.scenarios) |->
                               render_dal_scenario(ir.scenarios[i], vocab)]))

(***************************************************************************)
(* dual_spec.py: GWT                                                       *)
(***************************************************************************)
\* the header bar that render_gwt writes: it starts with ";" and contains "==="
Bar == ";==============================================================="

\* stripped.lstrip(";") for a line that starts with ";"
RECURSIVE LStripSemicolons(_)
LStripSemicolons(s) ==
    IF s # <<>> /\ Head(s) = ";" THEN LStripSemicolons(Tail(s)) ELSE s

\* atoms matching [A-Za-z0-9]+ ; every other atom of a header line or of a file stem
\* is punctuation or white space
IsAlnum(a) == a \in Words \cup Range(DigitAtoms)

RECURSIVE SlugPieces(_, _)
\* re.sub(r"[^a-z0-9]+", "_", value.lower()): `gap` says that the previous atom was
\* already replaced by "_"
SlugPieces(s, gap) ==
    IF s = <<>> THEN <<>>
    ELSE IF IsAlnum(Head(s)) THEN <<Lower(Head(s))>> \o SlugPieces(Tail(s), FALSE)
    ELSE IF gap THEN SlugPieces(Tail(s), TRUE)
    ELSE <<"_">> \o SlugPieces(Tail(s), TRUE)

RECURSIVE StripUnderscores(_)
\* str.strip("_")
StripUnderscores(s) ==
    IF s # <<>> /\ Head(s) = "_" THEN StripUnderscores(Tail(s))
    ELSE IF s # <<>> /\ s[Len(s)] = "_" THEN StripUnderscores(SubSeq(s, 1, Len(s) - 1))
    ELSE s

\* _slug_to_feature_id
slug_to_feature_id(slug) ==
    LET id == StripUnderscores(SlugPieces(slug, FALSE))
    IN IF id = <<>> THEN <<"feature">> ELSE id

\* _slug_to_scenario_name (the second re.sub finds nothing left to collapse)
slug_to_scenario_name(value) ==
    LET name == StripUnderscores(SlugPieces(value, FALSE))
    IN IF name = <<>> THEN <<"scenario">> ELSE name

\* str.capitalize for the first atom of a string
Capitalize(a) ==
    CASE a = "s" -> "S"
      [] a = "t" -> "T"
      [] a = "x" -> "X"
      [] a = "scenario" -> "Scenario"
      [] a = "interrogation" -> "Interrogation"
      [] OTHER -> a

NoMatch == [ok |-> FALSE, groups |-> EmptyDict]

SetMin(S) == CHOOSE k \in S : \A j \in S : k <= j

SetMax(S) == CHOOSE k \in S : \A j \in S : k >= j

RECURSIVE FullMatch(_, _)
\* pattern.fullmatch(line): [ok, groups]; a group takes one or more atoms, the fewest
\* (lazy) or the most (greedy) with which the rest of the pattern still matches
FullMatch(pattern, s) ==
    IF pattern = <<>> THEN [ok |-> s = <<>>, groups |-> EmptyDict]
    ELSE LET e == Head(pattern)
         IN IF e.group = ""
            THEN IF s # <<>> /\ Head(s) = e.lit THEN FullMatch(Tail(pattern), Tail(s))
                 ELSE NoMatch
            ELSE LET feasible == {k \in 1..Len(s) :
                                     FullMatch(Tail(pattern), SubSeq(s, k + 1, Len(s))).ok}
                 IN IF feasible = {} THEN NoMatch
                    ELSE LET k == IF e.lazy THEN SetMin(feasible) ELSE SetMax(feasible)
                             m == FullMatch(Tail(pattern), SubSeq(s, k + 1, Len(s)))
                         IN [ok |-> TRUE,
                             groups |-> DictSet(m.groups, e.group, StrValue(SubSeq(s, 1, k)))]

\* _build_regex_from_render: the placeholders of the declared args become lazy groups,
\* every other placeholder stays the literal text "{name}"
build_regex_from_render(template, args) ==
    [i \in 1..Len(template) |->
        IF template[i].group = "" THEN template[i]
        ELSE IF \E j \in 1..Len(args) : args[j].name = template[i].group
             THEN LazyGroup(template[i].group)
             ELSE [lit |-> "{" \o template[i].group \o "}", group |-> "", lazy |-> FALSE]]

\* entry.gwt_patterns: the match patterns, then the pattern built from the render template
gwt_patterns(entry) == Append(entry.match, build_regex_from_render(entry.gwt_render, entry.args))

NoEntryMatch == [found |-> FALSE, entry |-> 0, args |-> EmptyDict, match_index |-> 0 - 1]

RECURSIVE MatchPatterns(_, _, _, _)
\* _match_gwt_line, the inner loop over the patterns of one entry
MatchPatterns(n, entry, idx, line) ==
    IF idx > Len(gwt_patterns(entry)) THEN NoEntryMatch
    ELSE LET m == FullMatch(gwt_patterns(entry)[idx], line)
         IN IF m.ok THEN [found |-> TRUE, entry |-> n, args |-> m.groups, match_index |-> idx - 1]
            ELSE MatchPatterns(n, entry, idx + 1, line)

RECURSIVE MatchEntries(_, _, _)
\* _match_gwt_line, the outer loop over vocab.entries_by_kind[kind]; `entry` of the
\* result is the index of the entry in that list
MatchEntries(entries, n, line) ==
    IF n > Len(entries) THEN NoEntryMatch
    ELSE LET m == MatchPatterns(n, entries[n], 1, line)
         IN IF m.found THEN m ELSE MatchEntries(entries, n + 1, line)

match_gwt_line(line, kind, vocab) == MatchEntries(EntriesByKind(vocab, kind), 1, line)

\* the value None
NoneValue == [type |-> "none", text |-> <<>>, num |-> 0]

\* dict.get(key)
DictGet(d, key) == IF key \in DOMAIN d THEN d[key] ELSE NoneValue

\* Python's == for values that may be None
PyEqOrNone(v, w) == IF v.type = "none" \/ w.type = "none" THEN v = w ELSE PyEq(v, w)

\* d restricted to the keys in K
DictOnly(d, K) == [k \in DOMAIN d \cap K |-> d[k]]

\* args.setdefault(key, value) for every item of defaults
SetDefaults(args, defaults) ==
    [k \in DOMAIN args \cup DOMAIN defaults |-> IF k \in DOMAIN args THEN args[k] ELSE defaults[k]]

\* _apply_enrichment, for a vocabulary whose entries have no reason_by_match and no
\* derive_args_from_context and whose args are not named suggestion, line,
\* line_contains, bad_line_contains or feature: the two loops over those lists do
\* nothing and the branches on those names are not taken, so the context is only read.
apply_enrichment(entry, args_with_meta, context) ==
    LET required_arg_names == {entry.args[i].name : i \in 1..Len(entry.args)}
        a1 == SetDefaults(args_with_meta, entry.default_args)
        a2 == [k \in DOMAIN a1 \cup (required_arg_names \cap DOMAIN context) |->
                  IF k \in DOMAIN a1 THEN a1[k] ELSE context[k]]
        a3 == IF /\ "target" \in required_arg_names
                 /\ "file" \in DOMAIN context
                 /\ PyEqOrNone(DictGet(a2, "target"), DictGet(entry.default_args, "target"))
              THEN DictSet(a2, "target", context["file"])
              ELSE a2
        a4 == IF /\ "file" \in required_arg_names
                 /\ "file" \in DOMAIN context
                 /\ PyEqOrNone(DictGet(a3, "file"), DictGet(entry.default_args, "file"))
              THEN DictSet(a3, "file", context["file"])
              ELSE a3
    IN DictOnly(a4, required_arg_names)

\* the argument names that _update_context copies into the context
StickyKeys == {"feature", "feature_slug", "file", "gwt", "dal", "source", "from", "target",
               "scenario", "line"}

\* value.endswith(".dal") and value.endswith(".txt") for a string value
EndsWithSuffix(value, suffix) ==
    /\ value.type = "str"
    /\ Len(value.text) >= 2
    /\ value.text[Len(value.text) - 1] = "."
    /\ value.text[Len(value.text)] = suffix

EndsWithDal(value) == EndsWithSuffix(value, "dal")

EndsWithTxt(value) == EndsWithSuffix(value, "txt")

\* _update_context: the context after the call
update_context(context, args) ==
    LET paths == {k \in DOMAIN args \cap {"file", "path", "gwt", "dal"} : TRUE}
        dal == {k \in paths : EndsWithDal(args[k])}
        txt == {k \in paths : EndsWithTxt(args[k])}
        \* the last matching argument in the order of the dict wins; the entries of this
        \* vocabulary have at most one of these names
        keys == DOMAIN context \cup (DOMAIN args \cap StickyKeys)
                  \cup (IF dal # {} THEN {"dal_spec_path"} ELSE {})
                  \cup (IF txt # {} THEN {"gwt_spec_path"} ELSE {})
    IN [k \in keys |->
           IF k = "dal_spec_path" /\ dal # {} THEN args[CHOOSE x \in dal : TRUE]
           ELSE IF k = "gwt_spec_path" /\ txt # {} THEN args[CHOOSE x \in txt : TRUE]
           ELSE IF k \in DOMAIN args \cap StickyKeys THEN args[k]
           ELSE context[k]]

\* the local variables of parse_gwt; last_kind = "" stands for None
GwtState ==
    [ok |-> TRUE, scenarios |-> <<>>, current_name |-> <<>>, givens |-> <<>>, whens |-> <<>>,
     thens |-> <<>>, imports |-> <<>>, last_kind |-> "", in_header |-> FALSE,
     header_lines |-> <<>>, scenario_counter |-> 0, context |-> EmptyDict, boundaries |-> 0]

\* the keys of the context that survive the end of a scenario
SurvivingKeys == {"feature", "feature_slug", "dal_spec_path", "gwt_spec_path"}

\* parse_gwt.flush
flush(st) ==
    IF st.givens = <<>> /\ st.whens = <<>> /\ st.thens = <<>> THEN st
    ELSE LET scenario_name == IF st.current_name # <<>> THEN st.current_name
                              ELSE <<"scenario", "_">> \o IntStr(Len(st.scenarios) + 1)
         IN [st EXCEPT !.scenarios = Append(@, ScenarioIR(slug_to_scenario_name(scenario_name),
                                                          st.imports, st.givens, st.whens,
                                                          st.thens)),
                       !.current_name = <<>>,
                       !.givens = <<>>,
                       !.whens = <<>>,
                       !.thens = <<>>,
                       !.imports = <<>>,
                       !.context = DictOnly(@, SurvivingKeys),
                       !.boundaries = @ + 1]

\* " ".join(header_lines).strip() or current_name
HeaderName(st) ==
    LET joined == Strip(JoinWith(<<" ">>, st.header_lines))
    IN IF joined # <<>> THEN joined ELSE st.current_name

\* _split_keyword with the default keywords: "" stands for None
KeywordOf(line) ==
    CASE StartsWith(line, "GIVEN ") -> "GIVEN"
      [] StartsWith(line, "WHEN ") -> "WHEN"
      [] StartsWith(line, "THEN ") -> "THEN"
      [] StartsWith(line, "AND ") -> "AND"
      [] OTHER -> ""

KindOf(keyword) ==
    CASE keyword = "GIVEN" -> "fact" [] keyword = "WHEN" -> "action" [] OTHER -> "expectation"

CanonicalKeyword(kind) ==
    CASE kind = "fact" -> "GIVEN " [] kind = "action" -> "WHEN " [] OTHER -> "THEN "

\* parse_gwt that puts a fact into the open scenario whatever steps it has
GwtPlaceWithoutFlush(st, kind, entry, args) ==
    LET step == StepIR(kind, entry.symbol, args)
        updated == [st EXCEPT !.context = update_context(@, args)]
        placed == CASE kind = "fact" -> [updated EXCEPT !.givens = Append(@, step)]
                    [] kind = "action" -> [updated EXCEPT !.whens = Append(@, step)]
                    [] OTHER -> [updated EXCEPT !.thens = Append(@, step)]
        named == IF placed.current_name = <<>>
                 THEN [placed EXCEPT !.scenario_counter = @ + 1,
                                     !.current_name = <<"scenario", "_">> \o IntStr(placed.scenario_counter + 1)]
                 ELSE placed
    IN [named EXCEPT !.last_kind = kind]

\* parse_gwt, lines 455-470: the context is updated, then the step is put into its
\* section, a fact after an action or expectation closing the scenario first
GwtPlace(st, kind, entry, args) ==
    LET step == StepIR(kind, entry.symbol, args)
        updated == [st EXCEPT !.context = update_context(@, args)]
        placed == CASE kind = "fact" ->
                          LET s1 == IF updated.whens # <<>> \/ updated.thens # <<>>
                                    THEN flush(updated) ELSE updated
                          IN [s1 EXCEPT !.givens = Append(@, step)]
                    [] kind = "action" -> [updated EXCEPT !.whens = Append(@, step)]
                    [] OTHER -> [updated EXCEPT !.thens = Append(@, step)]
        named == IF placed.current_name = <<>>
                 THEN [placed EXCEPT !.scenario_counter = @ + 1,
                                     !.current_name = <<"scenario", "_">> \o IntStr(placed.scenario_counter + 1)]
                 ELSE placed
    IN [named EXCEPT !.last_kind = kind]

\* parse_gwt, lines 453-470: enrichment and validation of a matched clause
GwtMatched(st, kind, entry, args_with_meta, vocab) ==
    Only({ IF validate_step_args(vocab, entry, args) THEN GwtPlace(st, kind, entry, args)
           ELSE [st EXCEPT !.ok = FALSE] :
           args \in {apply_enrichment(entry, args_with_meta, st.context)} })

\* parse_gwt, the part of the loop body that handles a clause line
GwtClause(st, stripped, vocab) ==
    LET keyword == KeywordOf(stripped)
        kind == IF keyword = "AND" THEN st.last_kind ELSE KindOf(keyword)
        line_for_match == IF keyword = "AND" THEN <<CanonicalKeyword(kind)>> \o Tail(stripped)
                          ELSE stripped
    IN IF keyword = "" THEN [st EXCEPT !.ok = FALSE]
       ELSE IF keyword = "AND" /\ st.last_kind = "" THEN [st EXCEPT !.ok = FALSE]
       ELSE Only({ IF ~ m.found THEN [st EXCEPT !.ok = FALSE]
                   ELSE GwtMatched(st, kind, EntriesByKind(vocab, kind)[m.entry], m.args, vocab) :
                   m \in {match_gwt_line(line_for_match, kind, vocab)} })

\* parse_gwt, the loop body for one line
GwtLine(st, raw, vocab) ==
    LET stripped == Strip(raw)
    IN IF stripped = <<>> THEN st
       ELSE IF Head(stripped) \in CommentAtoms /\ Bar \in Range(stripped)
       THEN IF st.in_header
            THEN [st EXCEPT !.current_name = HeaderName(st),
                            !.header_lines = <<>>,
                            !.in_header = FALSE]
            ELSE LET s1 == IF st.givens # <<>> \/ st.whens # <<>> \/ st.thens # <<>>
                           THEN flush(st) ELSE st
                 IN [s1 EXCEPT !.in_header = TRUE, !.header_lines = <<>>]
       ELSE IF Head(stripped) \in CommentAtoms
       THEN IF st.in_header
            THEN [st EXCEPT !.header_lines = Append(@, Strip(LStripSemicolons(stripped)))]
            ELSE st
       ELSE GwtClause(st, stripped, vocab)

RECURSIVE GwtLoop(_, _, _)
\* parse_gwt, the loop over the lines; it stops at the first DualSpecError
GwtLoop(st, lines, vocab) ==
    IF lines = <<>> \/ ~ st.ok THEN st
    ELSE Only({ GwtLoop(next, Tail(lines), vocab) : next \in {GwtLine(st, Head(lines), vocab)} })

\* parse_gwt, the local variables when the function returns or raises
parse_gwt_state(lines, vocab) ==
    Only({ IF ~ st.ok THEN st
           ELSE flush(IF st.in_header THEN [st EXCEPT !.current_name = HeaderName(st)] ELSE st) :
           st \in {GwtLoop(GwtState, lines, vocab)} })

\* path.stem, without a trailing ".txt"
StemOf(stem) ==
    IF Len(stem) >= 2 /\ stem[Len(stem) - 1] = "." /\ stem[Len(stem)] = "txt"
    THEN SubSeq(stem, 1, Len(stem) - 2)
    ELSE stem

\* parse_gwt on the lines of the file at a path with the given stem
parse_gwt(lines, stem, vocab) ==
    Only({ IF st.ok THEN Parsed(FeatureIR(slug_to_feature_id(StemOf(stem)), st.scenarios))
           ELSE ParseError :
           st \in {parse_gwt_state(text, vocab) : text \in {lines}} })

\* str(value), as str.format writes a value into a template
PyStr(value) ==
    CASE value.type = "str" -> value.text
      [] value.type = "int" -> IntStr(value.num)
      [] OTHER -> IF value.num = 1 THEN <<"True">> ELSE <<"False">>

Placeholders(template) ==
    {template[i].group : i \in {k \in 1..Len(template) : template[k].group # ""}}

\* _template_covers_required
template_covers_required(template, required, defaults) ==
    \A i \in 1..Len(required) :
        required[i] \in Placeholders(template) \/ required[i] \in DOMAIN defaults

\* _pattern_to_template: a pattern of literals and named groups read as a template
pattern_to_template(pattern) ==
    [i \in 1..Len(pattern) |->
        IF pattern[i].group = "" THEN pattern[i] ELSE Group(pattern[i].group)]

\* _pick_gwt_template
pick_gwt_template(entry) ==
    LET required_names == [i \in 1..Len(entry.args) |-> entry.args[i].name]
        covering == {i \in 1..Len(gwt_patterns(entry)) :
                        template_covers_required(pattern_to_template(gwt_patterns(entry)[i]),
                                                 required_names, entry.default_args)}
    IN IF template_covers_required(entry.gwt_render, required_names, entry.default_args)
       THEN entry.gwt_render
       ELSE IF covering # {} THEN pattern_to_template(gwt_patterns(entry)[SetMin(covering)])
       ELSE entry.gwt_render

\* the text of a template with its placeholders left in place
TemplateText(template) ==
    Flatten([i \in 1..Len(template) |->
                IF template[i].group = "" THEN <<template[i].lit>>
                ELSE <<"{" \o template[i].group \o "}">>])

\* _render_gwt_step (no entry of the vocabulary has reason_by_match)
render_gwt_step(step, vocab) ==
    LET entry == EntryOf(vocab, step.kind, step.symbol)
        template == pick_gwt_template(entry)
        aliased == {p \in Placeholders(template) \ DOMAIN step.args :
                       (p \o "_contains") \in DOMAIN step.args}
        template_args == [k \in DOMAIN step.args \cup aliased |->
                             IF k \in DOMAIN step.args THEN step.args[k]
                             ELSE step.args[k \o "_contains"]]
    IN IF Placeholders(template) \subseteq DOMAIN template_args
       THEN Flatten([i \in 1..Len(template) |->
                        IF template[i].group = "" THEN <<template[i].lit>>
                        ELSE PyStr(template_args[template[i].group])])
       ELSE TemplateText(template)

\* scenario.name.replace("_", " ").strip().capitalize() + "."
TitleOf(name) ==
    LET spaced == Strip(Replace1(name, "_", <<" ">>))
    IN (IF spaced = <<>> THEN <<>>
        ELSE <<Capitalize(Head(spaced))>> \o [i \in 1..(Len(spaced) - 1) |-> Lower(spaced[i + 1])])
       \o <<".">>

\* render_gwt, the body of the loop for one scenario
render_gwt_scenario(sc, vocab) ==
    << <<Bar>>, <<";", " ">> \o TitleOf(sc.name), <<Bar>> >>
    \o [i \in 1..Len(sc.givens) |-> render_gwt_step(sc.givens[i], vocab)]
    \o << <<>> >>
    \o [i \in 1..Len(sc.whens) |-> render_gwt_step(sc.whens[i], vocab)]
    \o << <<>> >>
    \o [i \in 1..Len(sc.thens) |-> render_gwt_step(sc.thens[i], vocab)]
    \o << <<>> >>

\* render_gwt: the lines of the canonical GWT text
render_gwt(ir, vocab) ==
    RStripLines(<< <<";", " GENERATED FILE - DO NOT EDIT">>,
                   <<";", " canonicalized from DAL/IR using vocab.yaml">>,
                   <<>> >>
                \o Flatten([i \in 1..Len(ir.scenarios) |->
                               render_gwt_scenario(ir.scenarios[i], vocab)]))

\* input_path.stem of the file that is compiled
InputStem == <<"x">>

\* the stem of specs/{slug}.txt.canonical
CanonicalStem(slug) == slug \o <<".", "txt">>

(***************************************************************************)
(* dual_spec.py: serialize_ir_json, _unified_diff and compile_spec         *)
(***************************************************************************)
\* a JSON string literal as json.dumps writes it
JsonString(s) ==
    <<"\"">> \o Replace1(Replace1(s, "\\", <<"\\", "\\">>), "\"", <<"\\", "\"">>) \o <<"\"">>

\* the JSON text of an argument value
JsonValue(value) ==
    CASE value.type = "bool" -> IF value.num = 1 THEN <<"true">> ELSE <<"false">>
      [] value.type = "int" -> IntStr(value.num)
      [] value.type = "none" -> <<"null">>
      [] OTHER -> JsonString(value.text)

\* A JSON value laid out by json.dumps(indent=2) is a block of lines; the first line
\* carries no indentation of its own.
IndentBlock(block) == [i \in 1..Len(block) |-> <<"  ">> \o block[i]]

WithComma(block) == [block EXCEPT ![Len(block)] = @ \o <<",">>]

\* the items of a list or dict, one level deeper, separated by commas
JsonItems(blocks) ==
    Only({ Flatten([i \in 1..Len(items) |->
                       IndentBlock(IF i < Len(items) THEN WithComma(items[i]) ELSE items[i])]) :
           items \in {blocks} })

JsonArray(blocks) ==
    IF blocks = <<>> THEN << <<"[]">> >>
    ELSE << <<"[">> >> \o JsonItems(blocks) \o << <<"]">> >>

\* "key": value
JsonMember(key, block) == [block EXCEPT ![1] = <<"\"", key, "\"", ":", " ">> \o @]

\* a dict whose members are given in the order of their keys (sort_keys=True)
JsonObject(members) ==
    IF members = <<>> THEN << <<"{}">> >>
    ELSE << <<"{">> >> \o JsonItems(members) \o << <<"}">> >>

\* StepIR.to_dict, dumped
JsonStep(step) ==
    LET names == SortedBy(ArgNameOrder, DOMAIN step.args)
    IN JsonObject(<< JsonMember("args", JsonObject([i \in 1..Len(names) |->
                                    JsonMember(names[i], <<JsonValue(step.args[names[i]])>>)])),
                     JsonMember("kind", << <<"\"", step.kind, "\"">> >>),
                     JsonMember("symbol", << <<"\"", step.symbol, "\"">> >>) >>)

JsonSteps(steps) == JsonArray([i \in 1..Len(steps) |-> JsonStep(steps[i])])

\* ScenarioIR.to_dict, dumped
JsonScenario(sc) ==
    JsonObject(<< JsonMember("givens", JsonSteps(sc.givens)),
                  JsonMember("imports", JsonArray([i \in 1..Len(sc.imports) |->
                                                      <<JsonString(sc.imports[i])>>])),
                  JsonMember("name", <<JsonString(sc.name)>>),
                  JsonMember("thens", JsonSteps(sc.thens)),
                  JsonMember("whens", JsonSteps(sc.whens)) >>)

\* serialize_ir_json: the lines of json.dumps(ir.to_dict(), indent=2, sort_keys=True) + "\n"
serialize_ir_json(ir) ==
    JsonObject(<< JsonMember("feature_id", <<JsonString(ir.feature_id)>>),
                  JsonMember("scenarios", JsonArray([i \in 1..Len(ir.scenarios) |->
                                                        JsonScenario(ir.scenarios[i])])) >>)

\* _unified_diff: the lines of the diff file.  The two texts are compared line by line
\* (splitlines); difflib's hunks are written here as one hunk that removes every line of
\* the original and adds every line of the canonical text.
unified_diff(original, canonical, from_name, to_name) ==
    IF original = canonical THEN << <<"No textual differences.">> >>
    ELSE << <<"---", " ", from_name>>, <<"+++", " ", to_name>>, <<"@@">> >>
         \o [i \in 1..Len(original) |-> <<"-">> \o original[i]]
         \o [i \in 1..Len(canonical) |-> <<"+">> \o canonical[i]]

\* Path.write_text with append mode instead of truncation
write_text_append(file, content) == [exists |-> TRUE, content |-> file.content \o content]

\* Path.write_text: the file after the call
write_text(file, content) == [exists |-> TRUE, content |-> content]

\* compile_spec, lines 850-876: the outputs for a .txt input that parse_gwt accepted
compile_spec_txt(input, stem, vocab, files, ir) ==
    Only({ LET written == [dal |-> write_text(files.dal, render_dal(ir, vocab)),
                           canonical |-> write_text(files.canonical, canonical_gwt),
                           ir |-> write_text(files.ir, serialize_ir_json(ir)),
                           diff |-> write_text(files.diff,
                                               unified_diff(input.lines, canonical_gwt,
                                                            "input_path", "canonical_path"))]
               canonical_ir == parse_gwt(canonical_gwt, CanonicalStem(stem), vocab)
           IN [fs |-> written, raised |-> IF canonical_ir.ok THEN canonical_ir.ir # ir ELSE TRUE] :
           canonical_gwt \in {render_gwt(ir, vocab)} })

\* compile_spec, lines 879-888: the outputs for a .dal input that parse_dal accepted
compile_spec_dal(vocab, files, ir) ==
    [fs |-> [files EXCEPT !.canonical = write_text(@, render_gwt(ir, vocab)),
                          !.ir = write_text(@, serialize_ir_json(ir))],
     raised |-> FALSE]

\* compile_spec for the input file at {stem}.{suffix}: the output files after the call
\* and whether it raised DualSpecError
compile_spec(input, stem, vocab, files) ==
    IF input.suffix = "txt"
    THEN Only({ IF first.ok THEN compile_spec_txt(input, stem, vocab, files, first.ir)
                ELSE [fs |-> files, raised |-> TRUE] :
                first \in {parse_gwt(input.lines, stem, vocab)} })
    ELSE IF input.suffix = "dal"
    THEN Only({ IF first.ok THEN compile_spec_dal(vocab, files, first.ir)
                ELSE [fs |-> files, raised |-> TRUE] :
                first \in {parse_dal(input.lines, vocab)} })
    ELSE [fs |-> files, raised |-> TRUE]

(***************************************************************************)
(* interrogation.py                                                        *)
(***************************************************************************)
\* The vocabulary file of the interrogation drafts: it describes the clauses that
\* render_draft_gwt writes.
\*   facts:  no_spec(topic: text)       "GIVEN there is no acceptance spec describing {topic}."
\*   actions: start_workflow(title: text)
\*                                      "WHEN the user starts the ATDD workflow for "{title}"."
\*   expectations: dal_exists(path: text)  "THEN a DAL spec file exists at "{path}"."
\*                 gwt_exists(path: text)  "THEN a GWT spec file exists at "{path}"."
\*                 includes(text: text)
\*                     "THEN the regenerated GWT spec includes a scenario describing {text}."
DraftEntries ==
    LET no_spec == <<Lit("GIVEN "), Lit("there is no acceptance spec describing"), Lit(" "),
                     Group("topic"), Lit(".")>>
        start == <<Lit("WHEN "), Lit("the user starts the ATDD workflow for"), Lit(" "),
                   Lit("\""), Group("title"), Lit("\""), Lit(".")>>
        dal == <<Lit("THEN "), Lit("a DAL spec file exists at"), Lit(" "), Lit("\""),
                 Group("path"), Lit("\""), Lit(".")>>
        gwt == <<Lit("THEN "), Lit("a GWT spec file exists at"), Lit(" "), Lit("\""),
                 Group("path"), Lit("\""), Lit(".")>>
        includes == <<Lit("THEN "), Lit("the regenerated GWT spec includes a scenario describing"),
                      Lit(" "), Group("text"), Lit(".")>>
    IN << VocabEntry("fact", "no_spec", <<ArgSpec("topic", "text")>>, <<no_spec>>, no_spec,
                     EmptyDict),
          VocabEntry("action", "start_workflow", <<ArgSpec("title", "text")>>, <<start>>, start,
                     EmptyDict),
          VocabEntry("expectation", "dal_exists", <<ArgSpec("path", "text")>>, <<dal>>, dal,
                     EmptyDict),
          VocabEntry("expectation", "gwt_exists", <<ArgSpec("path", "text")>>, <<gwt>>, gwt,
                     EmptyDict),
          VocabEntry("expectation", "includes", <<ArgSpec("text", "text")>>, <<includes>>,
                     includes, EmptyDict) >>

DraftVocab == [types |-> VocabTypes, entries |-> DraftEntries]

\* the slug given to every call; the session file and the artifacts carry it in their names
SessionSlug == <<"s">>

\* the ids of the questions, in the order build_questions asks them
QuestionIds == <<"success_criteria", "failure_case", "constraints">>

\* InterrogationSession(slug=resolved_slug, idea=idea.strip())
NewSession(idea) ==
    [exists |-> TRUE, idea |-> idea, iteration |-> 0, approved |-> FALSE,
     answers |-> EmptyDict, ir_hash_history |-> <<>>]

\* build_questions: the ids of the questions still open
build_questions(session) == SelectSeq(QuestionIds, LAMBDA q : q \notin DOMAIN session.answers)

RECURSIVE RStripDots(_)
\* str.rstrip(".")
RStripDots(s) == IF s # <<>> /\ s[Len(s)] = "." THEN RStripDots(SubSeq(s, 1, Len(s) - 1)) ELSE s

\* the line that render_draft_gwt adds for an answer
AnswerLine(session, id) ==
    IF id \in DOMAIN session.answers /\ session.answers[id] # <<>>
    THEN << <<"THEN ", "the regenerated GWT spec includes a scenario describing", " ">>
            \o session.answers[id] \o <<".">> >>
    ELSE <<>>

\* render_draft_gwt: the lines of the draft
render_draft_gwt(session, slug) ==
    LET title == RStripDots(Strip(session.idea))
    IN << <<Bar>>,
          <<";", " ", "Interrogation", " ", "draft", " ", "for", ":", " ">> \o title \o <<".">>,
          <<Bar>>,
          <<"GIVEN ", "there is no acceptance spec describing", " ">> \o title \o <<".">>,
          <<>>,
          <<"WHEN ", "the user starts the ATDD workflow for", " ", "\"">> \o title \o <<"\"", ".">>,
          <<>>,
          <<"THEN ", "a DAL spec file exists at", " ", "\"", "specs/">> \o slug
              \o <<".", "dal", "\"", ".">>,
          <<"THEN ", "a GWT spec file exists at", " ", "\"", "specs/">> \o slug
              \o <<".", "txt", "\"", ".">> >>
       \o AnswerLine(session, "success_criteria")
       \o AnswerLine(session, "failure_case")
       \o AnswerLine(session, "constraints")

\* words that identifier_regex of check_specs matches
LeakageWords == {"service"}

\* check_specs on one file, for a vocabulary without banned tokens and banned regexes:
\* the numbers of the lines with a violation
check_specs(lines, vocab) ==
    SelectSeq([i \in 1..Len(lines) |-> i],
              LAMBDA i : /\ Strip(lines[i]) # <<>>
                         /\ Head(Strip(lines[i])) \notin CommentAtoms
                         /\ \E j \in 1..Len(lines[i]) : lines[i][j] \in LeakageWords)

\* sha256(...).hexdigest(): equal digests for equal contents only
Sha256(content) == [sha256 |-> content]

\* stable, with the comparison of the last two hashes left out
stable_without_comparison(history) == Len(history) >= 1

\* stable: the last two recorded hashes are equal
stable(history) ==
    Len(history) >= 2 /\ history[Len(history)] = history[Len(history) - 1]

\* session.answers.update({k: v for k, v in answers.items() if v})
UpdateAnswers(old, answers) ==
    LET given == {k \in DOMAIN answers : answers[k] # <<>>}
    IN [k \in DOMAIN old \cup given |-> IF k \in given THEN answers[k] ELSE old[k]]

\* the outcome of a call that raises InterrogationError: the session file is as it was
Raise(file, draft, files) ==
    [session |-> file, draft |-> draft, artifacts |-> files, raised |-> TRUE]

\* lines 190-207 with the session saved before approval is decided
ApproveAfterSave(file, session, approve, draft, files) ==
    LET recorded == [session EXCEPT !.ir_hash_history = Append(@, Sha256(files.ir.content))]
    IN IF approve /\ build_questions(recorded) # <<>> THEN Raise(recorded, draft, files)
       ELSE IF approve /\ ~ stable(recorded.ir_hash_history) THEN Raise(recorded, draft, files)
       ELSE [session |-> [recorded EXCEPT !.approved = IF approve THEN TRUE ELSE @],
             draft |-> draft, artifacts |-> files, raised |-> FALSE]

\* interrogate_iteration, lines 190-207: the hash is recorded, approval decided and the
\* session saved
Approve(file, session, approve, draft, files) ==
    LET recorded == [session EXCEPT !.ir_hash_history = Append(@, Sha256(files.ir.content))]
    IN IF approve /\ build_questions(recorded) # <<>> THEN Raise(file, draft, files)
       ELSE IF approve /\ ~ stable(recorded.ir_hash_history) THEN Raise(file, draft, files)
       ELSE [session |-> [recorded EXCEPT !.approved = IF approve THEN TRUE ELSE @],
             draft |-> draft, artifacts |-> files, raised |-> FALSE]

\* interrogate_iteration, lines 172-188: the draft is written, compiled and checked
Compile(file, session, approve, vocab_exists, draft, files, text) ==
    IF ~ vocab_exists THEN Raise(file, write_text(draft, text), files)
    ELSE Only({ IF compiled.raised \/ check_specs(text, DraftVocab) # <<>>
                THEN Raise(file, write_text(draft, text), compiled.fs)
                ELSE Approve(file, session, approve, write_text(draft, text), compiled.fs) :
                compiled \in {compile_spec([suffix |-> "txt", lines |-> text], SessionSlug,
                                           DraftVocab, files)} })

\* interrogate_iteration for the slug SessionSlug: the session file, the draft and the
\* compiler's outputs after the call, and whether it raised InterrogationError
interrogate_iteration(file, draft, files, idea, answers, approve, vocab_exists) ==
    LET loaded == IF file.exists THEN file ELSE NewSession(Strip(idea))
        session == [loaded EXCEPT !.answers = UpdateAnswers(@, answers), !.iteration = @ + 1]
    IN IF Strip(idea) # <<>> /\ loaded.idea # Strip(idea) /\ loaded.iteration > 0
       THEN Raise(file, draft, files)
       ELSE Only({ Compile(file, session, approve, vocab_exists, draft, files, text) :
                   text \in {render_draft_gwt(session, SessionSlug)} })

(***************************************************************************)
(* The values of each part's variables while another part's specification  *)
(* runs                                                                    *)
(***************************************************************************)
NoDalOut ==
    [accepted |-> FALSE, ir |-> FeatureIR(<<>>, <<>>), rendered |-> <<>>,
     reparsed |-> ParseError, rerendered |-> <<>>]

NoGwtOut == [accepted |-> FALSE, ir |-> FeatureIR(<<>>, <<>>), rendered |-> <<>>,
             reparsed |-> ParseError]

DalIdle ==
    /\ dalText = <<>>
    /\ dalOut = NoDalOut
    /\ dpc = "idle"
    /\ dalGwt = NoGwtOut
    /\ xpc = "idle"

GwtIdle ==
    /\ gwtText = <<>>
    /\ gwtOut = NoGwtOut
    /\ gpc = "idle"

\* a file that does not exist
NoFile == [exists |-> FALSE, content |-> <<>>]

\* the output files of a project in which compile_spec has not run
NoOutputs == [dal |-> NoFile, canonical |-> NoFile, ir |-> NoFile, diff |-> NoFile]

CompileIdle ==
    /\ inputFile = [suffix |-> "", lines |-> <<>>]
    /\ fs = NoOutputs
    /\ fsBefore = NoOutputs
    /\ raised = FALSE
    /\ runs = 0

NoSession == [exists |-> FALSE, idea |-> <<>>, iteration |-> 0, approved |-> FALSE,
              answers |-> EmptyDict, ir_hash_history |-> <<>>]

NoCall == [approve |-> FALSE, raised |-> FALSE, first |-> FALSE, approved_before |-> FALSE,
           open |-> {}, hash_matches |-> FALSE]

SessionIdle ==
    /\ sessionFile = NoSession
    /\ draftFile = NoFile
    /\ artifacts = NoOutputs
    /\ vocabExists = FALSE
    /\ lastCall = NoCall
    /\ calls = 0

\* the other parts while the DAL specifications run, and so on for each part
GapsIdle ==
    /\ gbuilt = <<>>
    /\ gnew = <<>>
    /\ ggraph = GraphModel(<<>>, <<>>)
    /\ gtriaged = {}
    /\ gbase = <<>>
    /\ gout = <<>>
    /\ grerun = <<>>
    /\ apc = "idle"

ParseIdle ==
    /\ pinput = [suffix |-> "", lines |-> <<>>]
    /\ presult = ParseError
    /\ ppc = "idle"

VocabIdle ==
    /\ vsource = [mapping |-> FALSE]
    /\ vresult = [ok |-> FALSE]
    /\ vpc = "idle"

StepsIdle ==
    /\ slines = <<>>
    /\ si = 0
    /\ stokens = <<>>
    /\ sparser = [pos |-> 0, scenarios |-> <<>>, errors |-> <<>>]
    /\ sresult = [scenarios |-> <<>>, errors |-> <<>>]
    /\ spc = "idle"

KwargsIdle ==
    /\ kargs = EmptyDict
    /\ ktext = <<>>
    /\ kparsed = [ok |-> FALSE, args |-> EmptyDict]
    /\ kpc = "idle"

RenderIdle ==
    /\ rentry = [symbol |-> ""]
    /\ rargs = EmptyDict
    /\ rline = <<>>
    /\ rmatch = NoMatch
    /\ rpc = "idle"

LegacyIdle ==
    /\ ltext = <<>>
    /\ lfile = ""
    /\ lresult = [scenarios |-> <<>>, errors |-> <<>>]
    /\ lpc = "idle"

\* the idle values of the parts that follow the interrogation loop, but for one
LaterIdleExcept(part) ==
    /\ part # "gaps" => GapsIdle
    /\ part # "parse" => ParseIdle
    /\ part # "vocab" => VocabIdle
    /\ part # "legacy" => LegacyIdle
    /\ part # "render" => RenderIdle
    /\ part # "kwargs" => KwargsIdle
    /\ part # "steps" => StepsIdle

LaterIdle == LaterIdleExcept("")

OthersIdle == GwtIdle /\ CompileIdle /\ SessionIdle /\ LaterIdle

(***************************************************************************)
(* The specification of extract_states_and_transitions: one scenario in,   *)
(* its states and transitions out.                                         *)
(***************************************************************************)
NoScenario == Scenario("", <<>>, <<>>, <<>>)

\* the idle values of the gaps and triage commands' variables
TriageIdle ==
    /\ specs = <<>>
    /\ templates = [l \in Range(LabelOrder) |-> <<>>]
    /\ gapsFile = <<>>
    /\ report = <<>>
    /\ tcmd = "none"
    /\ settled = {}

GraphIdle ==
    /\ parsed = <<>>
    /\ graph = GraphModel(<<>>, <<>>)
    /\ merged = <<>>
    /\ gop = "none"
    /\ nupd = 0
    /\ handed = 0

ExtractIdle ==
    /\ scenario = NoScenario
    /\ extracted = [states |-> <<>>, transitions |-> <<>>]
    /\ epc = "idle"

InitExtract ==
    /\ TriageIdle
    /\ DalIdle
    /\ OthersIdle
    /\ scenario \in ScenariosUpTo(MaxSection)
    /\ extracted = [states |-> <<>>, transitions |-> <<>>]
    /\ epc = "ready"
    /\ GraphIdle

Extract ==
    /\ epc = "ready"
    /\ extracted' = extract_states_and_transitions(scenario)
    /\ epc' = "done"
    /\ UNCHANGED <<scenario, notExtract>>

NextExtract == Extract

SpecExtract == InitExtract /\ [][NextExtract]_vars

\* the (when, given, then) clause triples of the scenario that carry the texts of t
TriplesOf(t) ==
    {<<i, j, k>> \in (1..Len(scenario.whens)) \X (1..Len(scenario.givens))
                      \X (1..Len(scenario.thens)) :
        /\ scenario.whens[i] = t.event
        /\ scenario.givens[j] = t.from_state
        /\ scenario.thens[k] = t.to_state}

\* C6: extract_states_and_transitions emits one transition for every (when, given,
\* then) clause triple of the scenario, carrying the three texts and the scenario's
\* title, and nothing else: |whens| x |givens| x |thens| transitions in all, and none
\* when a section is empty.
C6_CartesianTransitions ==
    epc = "done" =>
        /\ Len(extracted.transitions)
             = Len(scenario.whens) * Len(scenario.givens) * Len(scenario.thens)
        /\ \A n \in 1..Len(extracted.transitions) :
              /\ extracted.transitions[n].source_scenario = scenario.title
              /\ Count(extracted.transitions, extracted.transitions[n])
                   = Cardinality(TriplesOf(extracted.transitions[n]))
        /\ \A i \in 1..Len(scenario.whens), j \in 1..Len(scenario.givens),
                k \in 1..Len(scenario.thens) :
              Transition(scenario.whens[i], scenario.givens[j], scenario.thens[k],
                         scenario.title) \in Range(extracted.transitions)

\* a scenario with two different GIVENs, two different WHENs and two different THENs
\* has been extracted into eight transitions
C6_Witness ==
    /\ epc = "done"
    /\ Len(scenario.givens) = 2 /\ scenario.givens[1] # scenario.givens[2]
    /\ Len(scenario.whens) = 2 /\ scenario.whens[1] # scenario.whens[2]
    /\ Len(scenario.thens) = 2 /\ scenario.thens[1] # scenario.thens[2]
    /\ Len(extracted.transitions) = 8

(***************************************************************************)
(* The specification of the graph builder: build_graph on a ParseResult,   *)
(* then update_graph_incremental on the graph returned, any number of      *)
(* times.                                                                  *)
(***************************************************************************)
TitlesOf(scs) == {scs[i].title : i \in 1..Len(scs)}

InitGraph ==
    /\ TriageIdle
    /\ DalIdle
    /\ OthersIdle
    /\ GraphIdle
    /\ ExtractIdle

BuildGraph ==
    /\ gop = "none"
    /\ \E scs \in SeqsUpTo(SimpleScenarios, MaxScenarios) :
          /\ parsed' = scs
          /\ graph' = build_graph(scs)
          /\ merged' = scs
          /\ handed' = Len(scs)
    /\ gop' = "build"
    /\ nupd' = 0
    /\ UNCHANGED notGraph

UpdateGraphIncremental ==
    /\ gop \in {"build", "update"}
    /\ \E new \in SeqsUpTo(SimpleScenarios, MaxScenarios - handed) :
          /\ new # <<>>
          /\ graph' = update_graph_incremental(graph, new)
          /\ merged' = SelectSeq(merged, LAMBDA s : s.title \notin TitlesOf(new)) \o new
          /\ handed' = handed + Len(new)
    /\ gop' = "update"
    /\ nupd' = nupd + 1
    /\ UNCHANGED <<parsed, notGraph>>

NextGraph == BuildGraph \/ UpdateGraphIncremental

SpecGraph == InitGraph /\ [][NextGraph]_vars

Spec == SpecGraph

Sources(g) == {g.transitions[i].from_state : i \in 1..Len(g.transitions)}
Targets(g) == {g.transitions[i].to_state : i \in 1..Len(g.transitions)}

\* C5: in every graph returned by build_graph or update_graph_incremental a label is
\* an entry point exactly when it is the from_state of some transition and the
\* to_state of none, and a terminal state exactly when it is the to_state of some
\* transition and the from_state of none.
C5_EntryTerminalPartition ==
    gop \in {"build", "update"} =>
        \A s \in Range(LabelOrder) :
            /\ s \in Range(graph.entry_points) <=> (s \in Sources(graph) /\ s \notin Targets(graph))
            /\ s \in Range(graph.terminal_states) <=> (s \in Targets(graph) /\ s \notin Sources(graph))

\* an updated graph with an entry point, a terminal state and a label between them
\* that is both a source and a target
C5_Witness ==
    /\ gop = "update"
    /\ graph.entry_points # <<>>
    /\ graph.terminal_states # <<>>
    /\ Sources(graph) \cap Targets(graph) # {}

\* the labels of a states dict with the scenarios each one names
StateSources(states) ==
    {<<states[i].label, Range(states[i].source_scenarios)>> : i \in 1..Len(states)}

\* the entries of a cycle list with their multiplicities
CycleBag(cycles) == {<<cycles[i], Count(cycles, cycles[i])>> : i \in 1..Len(cycles)}

SameGraph(g, h) ==
    /\ g.transitions = h.transitions
    /\ StateSources(g.states) = StateSources(h.states)
    /\ g.entry_points = h.entry_points
    /\ g.terminal_states = h.terminal_states
    /\ CycleBag(g.cycles) = CycleBag(h.cycles)

\* C7: update_graph_incremental(build_graph(S), N, file) has the same transitions,
\* the same state labels with the same source-scenario sets, and the same entry
\* points, terminal states and cycles as build_graph over the scenarios of S whose
\* title is not a title of N, followed by N.
C7_UpdateAgreesWithRebuild ==
    (gop = "update" /\ nupd = 1) => SameGraph(graph, build_graph(merged))

\* the scenarios of the ParseResult in which a label occurs as GIVEN or THEN
Occurrences(l) ==
    {i \in 1..Len(parsed) : l \in Range(parsed[i].givens) \cup Range(parsed[i].thens)}

\* C16: in the graph returned by build_graph every label that occurs as a GIVEN or
\* THEN text of a scenario is a key of states exactly once, no other label is a key,
\* and its source_scenarios is the sorted, duplicate-free list of the titles of the
\* scenarios in which the label occurs.
C16_StateMerging ==
    gop = "build" =>
        \A l \in Range(LabelOrder) :
            LET keys == {k \in 1..Len(graph.states) : graph.states[k].label = l}
            IN /\ Cardinality(keys) = IF Occurrences(l) = {} THEN 0 ELSE 1
               /\ \A k \in keys :
                     graph.states[k].source_scenarios
                       = SortedBy(TitleOrder, {parsed[i].title : i \in Occurrences(l)})

\* a label that is the THEN of scenario S2 and the GIVEN of scenario S1, handed over
\* in that order, and a label that occurs twice in one scenario
C16_Witness ==
    /\ gop = "build"
    /\ Len(parsed) = 2
    /\ parsed[1].title = "S2" /\ parsed[2].title = "S1"
    /\ parsed[1].thens = parsed[2].givens
    /\ parsed[1].givens = parsed[1].thens
    /\ \E k \in 1..Len(graph.states) : graph.states[k].source_scenarios = <<"S1", "S2">>

RECURSIVE TransitiveClosure(_)
\* the pairs of labels joined by a non-empty directed path
TransitiveClosure(R) ==
    LET next == R \cup {<<p[1], q[2]>> : p, q \in R}
        joined == {pq \in next : pq \in R \/ \E p, q \in R : p[2] = q[1] /\ pq = <<p[1], q[2]>>}
    IN IF joined = R THEN R ELSE TransitiveClosure(joined)

\* the directed edges of the graph returned
EdgesOf(g) == {<<g.transitions[i].from_state, g.transitions[i].to_state>> : i \in 1..Len(g.transitions)}

\* the node sequences that walk once around a simple directed cycle of the graph
CycleWalks(g) ==
    {c \in SeqsUpTo(Range(LabelOrder), 3) :
        /\ Len(c) > 0
        /\ \A i, j \in 1..Len(c) : i # j => c[i] # c[j]
        /\ \A i \in 1..Len(c) : <<c[i], c[(i % Len(c)) + 1]>> \in EdgesOf(g)}

\* C17: in the graph returned by build_graph a label appears in an entry of cycles
\* exactly when a non-empty directed path of transitions leads from it back to itself,
\* and every entry of cycles is the sorted list of the labels of a simple directed
\* cycle.
C17_CycleDetection ==
    gop = "build" =>
        /\ \A l \in Range(LabelOrder) :
              (\E i \in 1..Len(graph.cycles) : l \in Range(graph.cycles[i]))
                <=> <<l, l>> \in TransitiveClosure(EdgesOf(graph))
        /\ \A i \in 1..Len(graph.cycles) :
              \E c \in CycleWalks(graph) :
                 graph.cycles[i] = SortedBy(LabelOrder, Range(c))

\* a graph with a self-loop and a cycle of two states
C17_Witness ==
    /\ gop = "build"
    /\ Len(graph.cycles) = 2
    /\ \E i, j \in 1..2 : Len(graph.cycles[i]) = 1 /\ Len(graph.cycles[j]) = 2

(***************************************************************************)
(* The gaps and triage commands of cli.py over one project directory: the  *)
(* project's spec file, the template files and .spec-eng/gaps.json          *)
(***************************************************************************)
\* scenarios in the project's own spec file
MaxSpecs == 2
\* the scenarios the project's spec file is drawn from
TriageScenarios == {sc \in SimpleScenarios : sc.title = "S1"}
\* template scenarios written by the triage command in one run of the model
MaxTemplates == 1

\* The state labels in the order of the names of their template files (_slugify:
\* a.gwt, b.gwt, c.gwt, expected-outcome.gwt); the project's own spec file is taken to
\* have a name that sorts before them.
SlugOrder == <<"a", "b", "c", "<expected outcome>">>

\* `for gwt_file in sorted(specs_dir.glob("*.gwt"))`: the scenarios of every file
AllScenarios(own, tmpl) ==
    own \o Flatten([i \in 1..Len(SlugOrder) |-> tmpl[SlugOrder[i]]])

\* the scenario that parse_gwt_file reads back from the text _generate_gap_template writes
TemplateScenario(gap) ==
    Scenario(TemplateTitle(gap.description),
             <<IF gap.states # <<>> THEN gap.states[1] ELSE "unknown">>,
             <<"<error or missing event>">>,
             <<"<expected outcome>">>)

RECURSIVE generate_gap_templates(_, _)
\* the calls of _generate_gap_template in the loop of triage, one per gap whose status
\* became needs-spec: each appends to the file of the gap's first state
generate_gap_templates(gaps, tmpl) ==
    IF gaps = <<>> THEN tmpl
    ELSE LET g == Head(gaps)
             target == IF g.states # <<>> THEN g.states[1] ELSE "unknown"
             next == IF g.triage_status = "needs-spec"
                     THEN [tmpl EXCEPT ![target] = Append(@, TemplateScenario(g))]
                     ELSE tmpl
         IN generate_gap_templates(Tail(gaps), next)

TemplatesWritten(tmpl) == Len(Flatten([i \in 1..Len(SlugOrder) |-> tmpl[SlugOrder[i]]]))

InitTriage ==
    /\ specs \in SeqsUpTo(TriageScenarios, MaxSpecs)
    /\ templates = [l \in Range(LabelOrder) |-> <<>>]
    /\ gapsFile = <<>>
    /\ report = <<>>
    /\ tcmd = "none"
    /\ settled = {}
    /\ ExtractIdle
    /\ GraphIdle
    /\ DalIdle
    /\ OthersIdle

\* cli.gaps with no scenario in specs/: prints and returns before anything is saved
GapsNoScenarios ==
    /\ AllScenarios(specs, templates) = <<>>
    /\ report' = <<>>
    /\ tcmd' = "gaps"
    /\ UNCHANGED <<specs, templates, gapsFile, settled, notTriage>>

\* cli.gaps: build the graph, load the triaged descriptions, analyze, save the result
GapsCmd ==
    /\ AllScenarios(specs, templates) # <<>>
    /\ LET gm == build_graph(AllScenarios(specs, templates))
           triaged == load_triaged(gapsFile)
           gap_list == analyze_gaps(gm, triaged)
       IN /\ gapsFile' = save_gaps(gap_list)
          /\ report' = gap_list
    /\ tcmd' = "gaps"
    /\ UNCHANGED <<specs, templates, settled, notTriage>>

Untriaged(gap_list) == {i \in 1..Len(gap_list) : gap_list[i].triage_status = "None"}

\* cli.triage with nothing left to triage
TriageNothing ==
    /\ Untriaged(load_gaps(gapsFile)) = {}
    /\ tcmd' = "triage"
    /\ UNCHANGED <<specs, templates, gapsFile, report, settled, notTriage>>

\* cli.triage: every untriaged gap gets the status chosen at its prompt (needs-spec
\* for all of them is also what --non-interactive gives), a template is written for
\* each needs-spec gap, and the whole list is saved
TriageCmd ==
    /\ Untriaged(load_gaps(gapsFile)) # {}
    /\ \E choice \in [Untriaged(load_gaps(gapsFile)) -> {"needs-spec", "intentional", "out-of-scope"}] :
          LET gap_list == load_gaps(gapsFile)
              untriaged == Untriaged(gap_list)
              done == [i \in 1..Len(gap_list) |->
                          IF i \in untriaged
                          THEN [gap_list[i] EXCEPT !.triage_status = choice[i]]
                          ELSE gap_list[i]]
              order == SelectSeq([i \in 1..Len(gap_list) |-> i], LAMBDA i : i \in untriaged)
              chosen == [k \in 1..Len(order) |-> done[order[k]]]
              written == generate_gap_templates(chosen, templates)
          IN /\ TemplatesWritten(written) <= MaxTemplates
             /\ templates' = written
             /\ gapsFile' = save_gaps(done)
             /\ settled' = IF written # templates THEN {}
                           ELSE settled \cup {done[i].description :
                                    i \in {k \in untriaged : choice[k] # "needs-spec"}}
    /\ tcmd' = "triage"
    /\ UNCHANGED <<specs, report, notTriage>>

NextTriage == GapsNoScenarios \/ GapsCmd \/ TriageNothing \/ TriageCmd

SpecTriage == InitTriage /\ [][NextTriage]_vars

\* C2: once a gap has been triaged intentional or out-of-scope, every later run of
\* the gaps command over the unchanged specs omits that gap from its report.
C2_TriageDurable ==
    tcmd = "gaps" => \A i \in 1..Len(report) : report[i].description \notin settled

(***************************************************************************)
(* DAL canonicalization: parse_dal, render_dal, parse_dal, render_dal on   *)
(* one DAL file                                                            *)
(***************************************************************************)
\* lines of a DAL file built from DalLines
MaxDalLines == 3
\* atoms after `file=` in the argument list of a spec_file step
MaxValue == 6
\* atoms after `code=` in the argument list of an exits step
MaxCode == 3

StepLine(op, symbol, blob) == <<op, " ", symbol, "(">> \o blob \o <<")", ".">>

\* statements, a comment, a blank line, a statement split over two lines, an invalid one
DalLines ==
    { <<"FEATURE", " ", "F", ".">>,
      <<"SCENARIO", " ", "s", ".">>,
      <<"SCENARIO", " ", "t", "_", "7", ".">>,
      <<"IMPORT", " ", "s", ".">>,
      StepLine("FACT", "no_users", <<>>),
      StepLine("FACT", "spec_file", <<"file", "=", "\"", "x", ".", "txt", "\"">>),
      StepLine("DO", "compile", <<"target", "=", "\"", "specs", "\"">>),
      StepLine("EXPECT", "compiled_ok", <<" ">>),
      <<" ", "DO", " ", "compile", "(", "target", " ", "=", " ", "\"", "specs", " ">>,
      <<" ", "x", ".", "txt", "\"", ")", ".">>,
      <<";">>,
      <<>>,
      <<"junk", ".">> }

ValueAtoms == {"x", "\"", "\\", ","}

CodeAtoms == {"-", "0", "7", "TRUE", "false"}

DalTexts ==
    SeqsUpTo(DalLines, MaxDalLines)
    \cup { << <<"SCENARIO", " ", "s", ".">>, StepLine("FACT", "spec_file", <<"file", "=">> \o raw) >> :
              raw \in SeqsUpTo(ValueAtoms, MaxValue) }
    \cup { << <<"SCENARIO", " ", "s", ".">>, StepLine("EXPECT", "exits", <<"code", "=">> \o raw) >> :
              raw \in SeqsUpTo(CodeAtoms, MaxCode) }

InitDal ==
    /\ dalText \in DalTexts
    /\ dalOut = NoDalOut
    /\ dpc = "ready"
    /\ dalGwt = NoGwtOut
    /\ xpc = "idle"
    /\ ExtractIdle
    /\ GraphIdle
    /\ TriageIdle
    /\ OthersIdle

\* parse the file; when it is accepted, render the IR, parse the rendered text and
\* render what that gives
Canonicalize ==
    /\ dpc = "ready"
    /\ LET first == parse_dal(dalText, ModelVocab)
           rendered == render_dal(first.ir, ModelVocab)
           reparsed == parse_dal(rendered, ModelVocab)
       IN dalOut' = IF first.ok
                    THEN [accepted |-> TRUE, ir |-> first.ir, rendered |-> rendered,
                          reparsed |-> reparsed,
                          rerendered |-> IF reparsed.ok THEN render_dal(reparsed.ir, ModelVocab)
                                         ELSE <<>>]
                    ELSE NoDalOut
    /\ dpc' = "done"
    /\ UNCHANGED <<dalText, dalGwt, xpc, notDal>>

NextDal == Canonicalize

SpecDal == InitDal /\ [][NextDal]_vars

\* C9: for every DAL text that parse_dal accepts, parsing the rendered IR succeeds and
\* yields the same IR, and rendering that again yields the same text.
C9_DalCanonicalizationIdempotent ==
    (dpc = "done" /\ dalOut.accepted) =>
        /\ dalOut.reparsed.ok
        /\ dalOut.reparsed.ir = dalOut.ir
        /\ dalOut.rerendered = dalOut.rendered

\* an accepted text whose string value holds a backslash and a double quote
C9_Witness ==
    /\ dpc = "done"
    /\ dalOut.accepted
    /\ \E i \in 1..Len(dalOut.ir.scenarios) :
          \E j \in 1..Len(dalOut.ir.scenarios[i].givens) :
             LET args == dalOut.ir.scenarios[i].givens[j].args
             IN /\ "file" \in DOMAIN args
                /\ "\\" \in Range(args["file"].text)
                /\ "\"" \in Range(args["file"].text)

(***************************************************************************)
(* The specification of the GWT round trip: parse_gwt, render_gwt and      *)
(* parse_gwt again, as compile_spec runs them on a .txt file.              *)
(***************************************************************************)
\* lines in a GWT file
MaxGwtLines == 3

\* the header bar, a title, the clauses of the vocabulary, a blank line and a line that
\* no keyword starts
GwtLines ==
    { <<Bar>>,
      <<";", " ", "S", ".">>,
      <<"GIVEN ", "a spec file", " ", "x", ".", "txt", ".">>,
      <<"GIVEN ", "no registered users", ".">>,
      <<"WHEN ", "the user compiles", ".">>,
      <<"WHEN ", "the user compiles", " ", "specs", ".">>,
      <<"THEN ", "compilation succeeds", ".">>,
      <<"THEN ", "the exit code is", " ", "7", ".">>,
      <<" ", "AND ", "compilation succeeds", ".", " ">>,
      <<>>,
      <<"junk">> }

GwtTexts == SeqsUpTo(GwtLines, MaxGwtLines)

InitGwt ==
    /\ gwtText \in GwtTexts
    /\ gwtOut = NoGwtOut
    /\ gpc = "ready"
    /\ ExtractIdle
    /\ GraphIdle
    /\ TriageIdle
    /\ DalIdle
    /\ CompileIdle
    /\ SessionIdle
    /\ LaterIdle

\* render the IR as canonical GWT and parse that
Reparse(ir, stem, vocab) ==
    Only({ [accepted |-> TRUE, ir |-> ir, rendered |-> rendered,
            reparsed |-> parse_gwt(rendered, CanonicalStem(stem), vocab)] :
           rendered \in {render_gwt(ir, vocab)} })

\* parse the file; when it is accepted, render the IR as canonical GWT and parse that
RoundTrip(text, stem, vocab) ==
    Only({ IF first.ok THEN Reparse(first.ir, stem, vocab) ELSE NoGwtOut :
           first \in {parse_gwt(text, stem, vocab)} })

GwtRoundTrip ==
    /\ gpc = "ready"
    /\ gwtOut' = RoundTrip(gwtText, InputStem, ModelVocab)
    /\ gpc' = "done"
    /\ UNCHANGED <<gwtText, notGwt>>

NextGwt == GwtRoundTrip

SpecGwt == InitGwt /\ [][NextGwt]_vars

\* C1: for every GWT text that parse_gwt accepts, parsing the rendered IR succeeds and
\* yields the same IR: the same scenario names in the same order and in each section the
\* same step kinds, symbols and argument mappings.
C1_GwtRoundTrip ==
    (gpc = "done" /\ gwtOut.accepted) =>
        /\ gwtOut.reparsed.ok
        /\ gwtOut.reparsed.ir = gwtOut.ir

(***************************************************************************)
(* The specification of DAL to GWT and back: parse_dal, render_gwt and     *)
(* parse_gwt, as compile_spec and a later compile of the canonical text    *)
(* run them.                                                               *)
(***************************************************************************)
InitDalGwt ==
    /\ dalText \in DalTexts
    /\ dalOut = NoDalOut
    /\ dpc = "idle"
    /\ dalGwt = NoGwtOut
    /\ xpc = "ready"
    /\ ExtractIdle
    /\ GraphIdle
    /\ TriageIdle
    /\ OthersIdle

\* parse the DAL file; when it is accepted, render the IR as canonical GWT and parse that
DalToGwt ==
    /\ xpc = "ready"
    /\ \E first \in {parse_dal(dalText, ModelVocab)} :
          dalGwt' = IF first.ok THEN Reparse(first.ir, InputStem, ModelVocab) ELSE NoGwtOut
    /\ xpc' = "done"
    /\ UNCHANGED <<dalText, dalOut, dpc, notDal>>

NextDalGwt == DalToGwt

SpecDalGwt == InitDalGwt /\ [][NextDalGwt]_vars

\* C8: for every FeatureIR that parse_dal produces, parsing the rendered GWT succeeds
\* and yields the same scenarios in the same order, each with the same steps of the same
\* kinds, symbols and argument mappings.
C8_DalGwtPreservesStructure ==
    (xpc = "done" /\ dalGwt.accepted) =>
        /\ dalGwt.reparsed.ok
        /\ Len(dalGwt.reparsed.ir.scenarios) = Len(dalGwt.ir.scenarios)
        /\ \A i \in 1..Len(dalGwt.ir.scenarios) :
              LET a == dalGwt.ir.scenarios[i]
                  b == dalGwt.reparsed.ir.scenarios[i]
              IN /\ a.name = b.name
                 /\ a.givens = b.givens /\ a.whens = b.whens /\ a.thens = b.thens

(***************************************************************************)
(* The specification of compile_spec: one input file is compiled again and *)
(* again in a project root that holds the outputs of earlier compilations. *)
(***************************************************************************)
\* lines in a DAL file that is compiled
MaxCompileDalLines == 2
\* calls of compile_spec
MaxRuns == 2

\* the output files that compiling another text once left under the same names
StaleOutputs ==
    compile_spec([suffix |-> "txt", lines |-> << <<"GIVEN ", "no registered users", ".">> >>],
                 InputStem, ModelVocab, NoOutputs).fs

InputFiles ==
    [suffix : {"txt"}, lines : GwtTexts]
    \cup [suffix : {"dal"}, lines : SeqsUpTo(DalLines, MaxCompileDalLines)]
    \cup [suffix : {"md"}, lines : SeqsUpTo(GwtLines, 1)]

InitCompile ==
    /\ inputFile \in InputFiles
    /\ fs \in {NoOutputs, StaleOutputs}
    /\ fsBefore = fs
    /\ raised = FALSE
    /\ runs = 0
    /\ ExtractIdle
    /\ GraphIdle
    /\ TriageIdle
    /\ DalIdle
    /\ GwtIdle
    /\ SessionIdle
    /\ LaterIdle

CompileSpec ==
    /\ runs < MaxRuns
    /\ \E result \in {compile_spec(inputFile, InputStem, ModelVocab, fs)} :
          /\ fs' = result.fs
          /\ raised' = result.raised
    /\ fsBefore' = fs
    /\ runs' = runs + 1
    /\ UNCHANGED <<inputFile, notCompile>>

NextCompile == CompileSpec

SpecCompile == InitCompile /\ [][NextCompile]_vars

\* C4: whenever compile_spec raises, none of the output files has been created or
\* changed by that call.
C4_FailedCompileWritesNothing ==
    (runs >= 1 /\ raised) => fs = fsBefore

\* C10: compiling the same input a second time, starting from the files the first run
\* left behind, leaves DAL, canonical GWT, IR JSON and diff exactly as the first run
\* wrote them, and the second run raises exactly when the first did.
C10_CompileRepeatable ==
    runs >= 2 => fs = fsBefore

\* a second compilation of a GWT file that differs from its canonical text, over stale
\* outputs of another text
C10_Witness ==
    /\ runs = 2
    /\ ~ raised
    /\ inputFile.suffix = "txt"
    /\ fs.dal.exists /\ fs.canonical.exists /\ fs.ir.exists /\ fs.diff.exists
    /\ fs.diff.content # << <<"No textual differences.">> >>
    /\ fs # StaleOutputs
    /\ Len(fs.ir.content) > 4

(***************************************************************************)
(* The specification of the interrogation loop: interrogate_iteration is   *)
(* called again and again for one slug.                                    *)
(***************************************************************************)
\* calls of interrogate_iteration
MaxCalls == 3

\* the idea argument: two ideas, one with white space and a final period, and none
Ideas == {<<" ", "x", ".">>, <<"y">>, <<>>}

\* the answers argument: any of the questions answered with a text, the first one with
\* another text, or the last one with a text that check_specs rejects or with nothing
AnswerInputs ==
    UNION {[ids -> {<<"a">>}] : ids \in SUBSET Range(QuestionIds)}
    \cup [{"success_criteria"} -> {<<"b">>}]
    \cup [{"constraints"} -> {<<"service">>, <<>>}]

InitSession ==
    /\ sessionFile = NoSession
    /\ draftFile = NoFile
    /\ artifacts = NoOutputs
    /\ vocabExists \in BOOLEAN
    /\ lastCall = NoCall
    /\ calls = 0
    /\ ExtractIdle
    /\ GraphIdle
    /\ TriageIdle
    /\ DalIdle
    /\ GwtIdle
    /\ CompileIdle
    /\ LaterIdle

\* one call; lastCall keeps what the caller passed and saw, and what was on disk
Iterate ==
    /\ calls < MaxCalls
    /\ \E idea \in Ideas, answers \in AnswerInputs, approve \in BOOLEAN :
          \E result \in {interrogate_iteration(sessionFile, draftFile, artifacts, idea, answers,
                                               approve, vocabExists)} :
             /\ sessionFile' = result.session
             /\ draftFile' = result.draft
             /\ artifacts' = result.artifacts
             /\ lastCall' = [approve |-> approve,
                             raised |-> result.raised,
                             first |-> sessionFile.iteration = 0,
                             approved_before |-> sessionFile.approved,
                             open |-> {q \in Range(QuestionIds) :
                                          /\ q \notin DOMAIN sessionFile.answers
                                          /\ q \in DOMAIN answers => answers[q] = <<>>},
                             hash_matches |->
                                 /\ result.artifacts.ir.exists
                                 /\ sessionFile.ir_hash_history # <<>>
                                 /\ Sha256(result.artifacts.ir.content)
                                      = sessionFile.ir_hash_history[Len(sessionFile.ir_hash_history)]]
    /\ calls' = calls + 1
    /\ UNCHANGED <<vocabExists, notSession>>

NextSession == Iterate

SpecSession == InitSession /\ [][NextSession]_vars

\* C3: a call of interrogate_iteration makes the session approved only when it was made
\* with approve=True, no question is open once its answers are applied, and the IR hash
\* of this iteration equals the last recorded one; every other call with approve=True
\* raises InterrogationError; approval never succeeds on the first iteration.
C3_ApprovalGate ==
    calls >= 1 =>
        LET allowed == lastCall.approve /\ lastCall.open = {} /\ lastCall.hash_matches
        IN /\ (sessionFile.approved /\ ~ lastCall.approved_before) => (allowed /\ ~ lastCall.raised)
           /\ (lastCall.approve /\ ~ allowed) => lastCall.raised
           /\ (lastCall.approve /\ lastCall.first) => lastCall.raised

\* an approval that succeeded: a later call with approve=True, every question answered
\* and the IR unchanged since the recorded iteration before it
C3_Witness ==
    /\ calls >= 2
    /\ lastCall.approve
    /\ ~ lastCall.raised
    /\ ~ lastCall.approved_before
    /\ sessionFile.approved
    /\ Len(sessionFile.ir_hash_history) >= 2

\* C26: in every session file that a sequence of interrogate_iteration calls leaves on
\* disk, approved is true only if no question is open and the last two entries of
\* ir_hash_history are equal.
C26_ApprovedImpliesStable ==
    (sessionFile.exists /\ sessionFile.approved) =>
        /\ build_questions(sessionFile) = <<>>
        /\ stable(sessionFile.ir_hash_history)

\* C27: after any sequence of interrogate_iteration calls for a slug, calls that raised
\* InterrogationError included, the last entry of the saved session's ir_hash_history is
\* the SHA-256 of the IR file on disk, and the draft GWT file on disk is the one
\* rendered from the saved session's answers.
C27_SessionAndArtifactsInStep ==
    sessionFile.exists =>
        /\ artifacts.ir.exists
        /\ sessionFile.ir_hash_history # <<>>
        /\ sessionFile.ir_hash_history[Len(sessionFile.ir_hash_history)]
             = Sha256(artifacts.ir.content)
        /\ draftFile.exists
        /\ draftFile.content = render_draft_gwt(sessionFile, SessionSlug)

\* C29: in every session file that a sequence of interrogate_iteration calls, failed
\* ones included, leaves on disk, ir_hash_history is as long as iteration; a call that
\* raised leaves the saved iteration, answers, ir_hash_history and approved as they
\* were; no call removes a recorded answer, so no call opens a question.
C29_SessionBookkeeping ==
    [][ /\ sessionFile'.exists => Len(sessionFile'.ir_hash_history) = sessionFile'.iteration
        /\ lastCall'.raised =>
               /\ sessionFile'.exists = sessionFile.exists
               /\ sessionFile'.iteration = sessionFile.iteration
               /\ sessionFile'.answers = sessionFile.answers
               /\ sessionFile'.ir_hash_history = sessionFile.ir_hash_history
               /\ sessionFile'.approved = sessionFile.approved
        /\ DOMAIN sessionFile.answers \subseteq DOMAIN sessionFile'.answers
        /\ Range(build_questions(sessionFile')) \subseteq Range(build_questions(sessionFile))
      ]_vars

\* a call that raised after two that were saved, the first of them with an answer
C29_Witness ==
    /\ calls = 3
    /\ lastCall.raised
    /\ sessionFile.exists
    /\ sessionFile.iteration = 2
    /\ Len(sessionFile.ir_hash_history) = 2
    /\ DOMAIN sessionFile.answers # {}
    /\ draftFile.content # render_draft_gwt(sessionFile, SessionSlug)

(***************************************************************************)
(* The specification of the gap analysis: analyze_gaps on a graph returned *)
(* by build_graph or update_graph_incremental, once without and once with  *)
(* a triaged map, and again after every reported gap has been triaged.     *)
(***************************************************************************)
\* scenarios handed to build_graph before the analysis
MaxGapScenarios == 2

\* the complete scenarios the analysed graphs are built from: one GIVEN, one or two
\* WHENs, one or two THENs
GapScenarios ==
    {Scenario(t, <<g>>, ws, ths) :
        t \in Titles, g \in {"a", "b"},
        ws \in {<<"pay">>, <<"pay fails">>, <<"do not pay">>, <<"pay", "do not pay">>},
        ths \in {<<"a">>, <<"b">>, <<"c">>, <<"b", "c">>}}

\* the keys of a triaged map: its values ("intentional", "out-of-scope") are never read
Descriptions(gaps) == {gaps[i].description : i \in 1..Len(gaps)}

InitGaps ==
    /\ gbuilt \in SeqsUpTo(GapScenarios, MaxGapScenarios)
    /\ gnew \in SeqsUpTo(GapScenarios, 1)
    /\ gnew # <<>> => Len(gbuilt) = 1
    /\ ggraph = IF gnew = <<>> THEN build_graph(gbuilt)
                ELSE update_graph_incremental(build_graph(gbuilt), gnew)
    /\ gtriaged = {}
    /\ gbase = <<>>
    /\ gout = <<>>
    /\ grerun = <<>>
    /\ apc = "ready"
    /\ ExtractIdle
    /\ GraphIdle
    /\ TriageIdle
    /\ DalIdle
    /\ GwtIdle
    /\ CompileIdle
    /\ SessionIdle
    /\ LaterIdleExcept("gaps")

\* analyze_gaps(graph) and analyze_gaps(graph, triaged) for a triaged map over the
\* descriptions of the graph's gaps and one description of no gap
AnalyzeGaps ==
    /\ apc = "ready"
    /\ \E base \in {analyze_gaps(ggraph, {})} :
          \E T \in SUBSET (Descriptions(base) \cup {DeadEndDescription("<expected outcome>")}) :
             /\ gbase' = base
             /\ gtriaged' = T
             /\ gout' = analyze_gaps(ggraph, T)
    /\ apc' = "analyzed"
    /\ UNCHANGED <<gbuilt, gnew, ggraph, grerun, notGaps>>

\* every gap of the run is triaged intentional or out-of-scope, and the analysis runs
\* again over the same graph
TriageAllAndRerun ==
    /\ apc = "analyzed"
    /\ \E T \in {gtriaged \cup Descriptions(gout)} :
          /\ gtriaged' = T
          /\ grerun' = analyze_gaps(ggraph, T)
    /\ apc' = "rerun"
    /\ UNCHANGED <<gbuilt, gnew, ggraph, gbase, gout, notGaps>>

NextGaps == AnalyzeGaps \/ TriageAllAndRerun

SpecGaps == InitGaps /\ [][NextGaps]_vars

\* the detectors in the order analyze_gaps runs them
GapTypeOrder == <<"dead-end", "unreachable", "missing-error", "contradiction", "missing-negative">>

TypeIndex(type) == CHOOSE i \in 1..Len(GapTypeOrder) : GapTypeOrder[i] = type

\* C11: analyze_gaps(graph, T) returns exactly the gaps of analyze_gaps(graph, {})
\* whose description is not a key of T, in the same order, and that order lists the
\* dead-end gaps first, then the unreachable, missing-error, contradiction and
\* missing-negative gaps.
C11_FilteredUnion ==
    apc = "analyzed" =>
        /\ gout = SelectSeq(gbase, LAMBDA g : g.description \notin gtriaged)
        /\ \A i, j \in 1..Len(gbase) :
              i < j => TypeIndex(gbase[i].gap_type) <= TypeIndex(gbase[j].gap_type)

\* a triaged map that holds the description of one gap of a state and not that of
\* another gap of the same state: the first is gone and the second is reported
C11_Witness ==
    /\ apc = "analyzed"
    /\ \E i, j \in 1..Len(gbase) :
          /\ gbase[i].gap_type # gbase[j].gap_type
          /\ gbase[i].states[1] = gbase[j].states[1]
          /\ gbase[i].description \in gtriaged
          /\ gbase[j].description \notin gtriaged
          /\ gbase[j] \in Range(gout)
          /\ gbase[i] \notin Range(gout)

\* C12: when every gap returned by one run of analyze_gaps is added to the triaged
\* map, the next run over the same graph returns strictly fewer gaps, or none when the
\* first run returned none.
C12_TriageMonotone ==
    apc = "rerun" =>
        \/ Len(grerun) < Len(gout)
        \/ Len(gout) = 0 /\ Len(grerun) = 0

\* a first run with a partly filled triaged map that still reported gaps of two
\* kinds, followed by the re-run
C12_Witness ==
    /\ apc = "rerun"
    /\ Len(gout) >= 2
    /\ Len(gout) < Len(gbase)
    /\ \E i, j \in 1..Len(gout) : gout[i].gap_type # gout[j].gap_type
    /\ Len(grerun) = 0

\* the graph was built from one scenario GIVEN g / WHEN w / THEN t with g # t and no
\* negative keyword in w
SingleScenario ==
    /\ gnew = <<>>
    /\ Len(gbuilt) = 1
    /\ Len(gbuilt[1].givens) = 1 /\ Len(gbuilt[1].whens) = 1 /\ Len(gbuilt[1].thens) = 1
    /\ gbuilt[1].givens[1] # gbuilt[1].thens[1]
    /\ ~ HasNegativeWord(gbuilt[1].whens[1])

\* gaps of one type that name the state
GapsOf(gaps, type, state) ==
    {i \in 1..Len(gaps) : gaps[i].gap_type = type /\ gaps[i].states = <<state>>}

\* the graph of a single scenario: two states, one transition from g to t on w, and g
\* an entry point
SingleScenarioGraph ==
    /\ Len(ggraph.states) = 2
    /\ {ggraph.states[i].label : i \in 1..2} = {gbuilt[1].givens[1], gbuilt[1].thens[1]}
    /\ ggraph.transitions = <<Transition(gbuilt[1].whens[1], gbuilt[1].givens[1],
                                         gbuilt[1].thens[1], gbuilt[1].title)>>
    /\ gbuilt[1].givens[1] \in Range(ggraph.entry_points)

\* C13 as claimed: for the graph of one scenario GIVEN g / WHEN w / THEN t there are 2
\* states and 1 transition from g to t on w, g is an entry point, and t is reported
\* both as a dead-end gap and as a missing-negative gap.
C13_SingleScenarioAsClaimed ==
    (apc = "analyzed" /\ SingleScenario) =>
        /\ SingleScenarioGraph
        /\ GapsOf(gbase, "dead-end", gbuilt[1].thens[1]) # {}
        /\ GapsOf(gbase, "missing-negative", gbuilt[1].thens[1]) # {}

\* C13: for the graph of one scenario GIVEN g / WHEN w / THEN t there are 2 states
\* and 1 transition from g to t on w, g is an entry point, t is reported as a dead-end
\* gap and g, the state the event leaves, as a missing-negative gap; these are the only
\* gaps.
C13_SingleScenario ==
    (apc = "analyzed" /\ SingleScenario) =>
        /\ SingleScenarioGraph
        /\ Cardinality(GapsOf(gbase, "dead-end", gbuilt[1].thens[1])) = 1
        /\ Cardinality(GapsOf(gbase, "missing-negative", gbuilt[1].givens[1])) = 1
        /\ Len(gbase) = 2

\* the scenario GIVEN a / WHEN pay / THEN b has been analysed
C13_Witness ==
    /\ apc = "analyzed"
    /\ SingleScenario
    /\ gbuilt[1].givens = <<"a">> /\ gbuilt[1].whens = <<"pay">> /\ gbuilt[1].thens = <<"b">>
    /\ Len(gbase) = 2

\* the distinct event labels of the transitions that leave a state
OutboundEvents(g, state) ==
    {g.transitions[i].event : i \in {k \in 1..Len(g.transitions) : g.transitions[k].from_state = state}}

\* C14: without a triaged map a missing-error gap is reported for a state exactly when
\* the state has at least two distinct outbound event labels and none of them contains
\* "error", "fail" or "invalid"; with a triaged map the gap is reported exactly when it
\* is reported without one and its description is not triaged.
C14_MissingError ==
    apc = "analyzed" =>
        /\ \A s \in Range(LabelOrder) :
              GapsOf(gbase, "missing-error", s) # {}
                <=> /\ Cardinality(OutboundEvents(ggraph, s)) >= 2
                    /\ \A e \in OutboundEvents(ggraph, s) : ~ HasErrorWord(e)
        /\ \A i \in 1..Len(gbase) :
              gbase[i].gap_type = "missing-error" =>
                 (gbase[i] \in Range(gout) <=> gbase[i].description \notin gtriaged)

\* the transitions of one (from-state, event) pair
PairTransitions(g, from, event) ==
    SelectSeq(g.transitions, LAMBDA t : t.from_state = from /\ t.event = event)

\* the contradiction gaps of one (from-state, event) pair: a contradiction gap names
\* the pair in its description only
PairGaps(gaps, from, event) ==
    {i \in 1..Len(gaps) :
        /\ gaps[i].gap_type = "contradiction"
        /\ \E n \in 2..4 : gaps[i].description = ContradictionDescription(from, event, n)}

\* C15: without a triaged map exactly one contradiction gap is reported for each
\* (from-state, event) pair whose transitions reach more than one distinct to-state
\* and none for any other pair; its states are the from-state followed by the sorted
\* to-states, and its transitions hold one entry per transition of the pair, naming
\* the event and the scenario of that transition.
C15_Contradictions ==
    apc = "analyzed" =>
        \A from \in Range(LabelOrder), event \in Range(EventOrder) :
            LET ts == PairTransitions(ggraph, from, event)
                tos == {ts[i].to_state : i \in 1..Len(ts)}
            IN IF Cardinality(tos) > 1
               THEN /\ Cardinality(PairGaps(gbase, from, event)) = 1
                    /\ \A i \in PairGaps(gbase, from, event) :
                          /\ gbase[i].states = <<from>> \o SortedBy(LabelOrder, tos)
                          /\ gbase[i].transitions =
                                [k \in 1..Len(ts) |->
                                    event \o " (from " \o ts[k].source_scenario \o ")"]
               ELSE PairGaps(gbase, from, event) = {}

\* two scenarios that share precondition and event and differ in outcome, and the one
\* contradiction gap reported for them
C15_Witness ==
    /\ apc = "analyzed"
    /\ gnew = <<>>
    /\ Len(gbuilt) = 2
    /\ gbuilt[1].title # gbuilt[2].title
    /\ gbuilt[1].givens = gbuilt[2].givens
    /\ gbuilt[1].whens = <<"pay">> /\ gbuilt[2].whens = <<"pay">>
    /\ gbuilt[1].thens = <<"b">> /\ gbuilt[2].thens = <<"c">>
    /\ Cardinality({i \in 1..Len(gbase) : gbase[i].gap_type = "contradiction"}) = 1

\* the scenarios whose transitions are in the graph of SpecGaps: those of the update,
\* and those of the build that the update did not replace
GraphScenarios ==
    gnew \o SelectSeq(gbuilt, LAMBDA sc : \A n \in 1..Len(gnew) : gnew[n].title # sc.title)

\* the scenarios of the graph that lead from a state on an event
Contributors(from, event) ==
    {n \in 1..Len(GraphScenarios) :
        /\ from \in Range(GraphScenarios[n].givens)
        /\ event \in Range(GraphScenarios[n].whens)}

\* C24: the transitions grouped under the (from-state, event) pair of a contradiction
\* gap originate from more than one scenario; a scenario on its own, with several THEN
\* clauses too, gives no contradiction gap.
C24_ContradictionNeedsTwoScenarios ==
    apc = "analyzed" =>
        \A from \in Range(LabelOrder), event \in Range(EventOrder) :
            PairGaps(gbase, from, event) # {} => Cardinality(Contributors(from, event)) >= 2

\* C28: in a graph returned by build_graph for complete scenarios, and in one obtained
\* from it by update_graph_incremental with complete scenarios, every key of states is
\* the from_state or the to_state of a transition, and analyze_gaps reports no
\* unreachable gap.
C28_NoOrphanStates ==
    /\ \A i \in 1..Len(ggraph.states) :
          ggraph.states[i].label \in Sources(ggraph) \cup Targets(ggraph)
    /\ apc = "analyzed" => \A i \in 1..Len(gbase) : gbase[i].gap_type # "unreachable"

(***************************************************************************)
(* The specification of the two parsers: parse_dal on a .dal file and      *)
(* parse_gwt on a .txt file.                                               *)
(***************************************************************************)
ParseInputs ==
    [suffix : {"txt"}, lines : GwtTexts] \cup [suffix : {"dal"}, lines : DalTexts]

InitParse ==
    /\ pinput \in ParseInputs
    /\ presult = ParseError
    /\ ppc = "ready"
    /\ ExtractIdle
    /\ GraphIdle
    /\ TriageIdle
    /\ DalIdle
    /\ GwtIdle
    /\ CompileIdle
    /\ SessionIdle
    /\ LaterIdleExcept("parse")

\* parse_dal or parse_gwt, by the suffix of the file
ParseFile ==
    /\ ppc = "ready"
    /\ presult' = IF pinput.suffix = "txt" THEN parse_gwt(pinput.lines, InputStem, ModelVocab)
                  ELSE parse_dal(pinput.lines, ModelVocab)
    /\ ppc' = "done"
    /\ UNCHANGED <<pinput, notParse>>

NextParse == ParseFile

SpecParse == InitParse /\ [][NextParse]_vars

\* a value passes the type: a string type takes a str that matches its pattern, an
\* enum type takes a value equal to one of its values
PassesType(types, type_name, value) ==
    /\ type_name \in DOMAIN types
    /\ \/ /\ types[type_name].kind = "string"
          /\ value.type = "str"
          /\ types[type_name].pattern = "^[a-z][a-z0-9_]*$" => IsLowerIdentifier(value.text)
       \/ /\ types[type_name].kind = "enum"
          /\ \E allowed \in types[type_name].values :
                IF value.type = "str" \/ allowed.type = "str"
                THEN value.type = allowed.type /\ value.text = allowed.text
                ELSE value.num = allowed.num

\* the step names a symbol of its kind, carries the declared argument names and only
\* those, and every value passes its declared type
StepIsValid(step, vocab) ==
    \E i \in 1..Len(vocab.entries) :
        /\ vocab.entries[i].category = step.kind
        /\ vocab.entries[i].symbol = step.symbol
        /\ DOMAIN step.args = {vocab.entries[i].args[k].name : k \in 1..Len(vocab.entries[i].args)}
        /\ \A k \in 1..Len(vocab.entries[i].args) :
              PassesType(vocab.types, vocab.entries[i].args[k].type_name,
                         step.args[vocab.entries[i].args[k].name])

StepsOf(ir) ==
    UNION {Range(ir.scenarios[i].givens) \cup Range(ir.scenarios[i].whens)
              \cup Range(ir.scenarios[i].thens) : i \in 1..Len(ir.scenarios)}

\* a DAL statement that is a step and names no symbol of its kind, or whose arguments
\* are not those declared, or hold a value its type rejects
InvalidDalStep(stmt, vocab) ==
    /\ StepMatches(stmt)
    /\ LET g == StepGroups(stmt)
           args == parse_kwargs(g.arg_blob)
       IN args.ok => ~ StepIsValid(StepIR(StepKind(g.op), g.symbol, args.args), vocab)

\* a GWT clause that gives the exit code: the captured text is a str, which the enum
\* type of the argument rejects
InvalidGwtStep(line) ==
    /\ Len(Strip(line)) = 5
    /\ SubSeq(Strip(line), 1, 3) = <<"THEN ", "the exit code is", " ">>
    /\ Strip(line)[5] = "."

\* the input holds a step that is not valid
HasInvalidStep ==
    IF pinput.suffix = "txt"
    THEN \E i \in 1..Len(pinput.lines) : InvalidGwtStep(pinput.lines[i])
    ELSE LET statements == Statements(pinput.lines, <<>>, <<>>).statements
         IN \E i \in 1..Len(statements) : InvalidDalStep(statements[i], ModelVocab)

RootKeys ==
    {"types", "vocabulary", "lints", "gwt", "dal",
     "vocabulary.facts", "vocabulary.actions", "vocabulary.expectations",
     "lints.implementation_leakage", "gwt.keywords", "dal.keywords"}

EntryKeys == {"args", "gwt", "dal", "gwt.match", "gwt.render", "dal.render"}

\* _require_keys: TRUE when it returns, FALSE when it raises
require_keys(data, keys) == keys \subseteq data

\* the result of load_vocab or _build_vocab_entry when DualSpecError was raised
VocabError == [ok |-> FALSE, vocab |-> [types |-> [n \in {} |-> 0], entries |-> <<>>]]

\* yaml.safe_load of a mapping node: one key per name, at the place of its first
\* item and with the value of its last
YamlMapping(items) ==
    LET keys == FirstOccurrences([i \in 1..Len(items) |-> items[i].symbol])
    IN [k \in 1..Len(keys) |->
           items[CHOOSE i \in 1..Len(items) :
                    /\ items[i].symbol = keys[k]
                    /\ \A j \in (i + 1)..Len(items) : items[j].symbol # keys[k]]]

\* _build_vocab_entry: TRUE when it returns, FALSE when it raises
EntryBuilds(spec) ==
    /\ require_keys(spec.keys, {"args", "gwt", "dal"})
    /\ require_keys(spec.keys, {"gwt.match", "gwt.render"})
    /\ require_keys(spec.keys, {"dal.render"})
    /\ \A i \in 1..Len(spec.args) : {"name", "type"} \subseteq spec.args[i].keys
    /\ \A i \in 1..Len(spec.match) : spec.match[i].compiles

\* the VocabEntry that _build_vocab_entry returns
build_vocab_entry(kind, symbol, spec) ==
    VocabEntry(kind, symbol,
               [i \in 1..Len(spec.args) |-> ArgSpec(spec.args[i].name, spec.args[i].type)],
               [i \in 1..Len(spec.match) |-> spec.match[i].pattern],
               spec.render, spec.default_args)

RECURSIVE LoadEntries(_, _, _)
\* load_vocab, the loop over the items of one section of the vocabulary
LoadEntries(kind, items, loaded) ==
    IF ~ loaded.ok \/ items = <<>> THEN loaded
    ELSE IF ~ EntryBuilds(Head(items).spec) THEN VocabError
    ELSE IF HasEntry(loaded.vocab, kind, Head(items).symbol) THEN VocabError
    ELSE LoadEntries(kind, Tail(items),
                     [loaded EXCEPT !.vocab.entries =
                         Append(@, build_vocab_entry(kind, Head(items).symbol,
                                                     Head(items).spec))])

\* load_vocab: the Vocab, or ok = FALSE when DualSpecError was raised
load_vocab(source) ==
    IF ~ source.mapping THEN VocabError
    ELSE IF ~ require_keys(source.keys, {"types", "vocabulary", "lints", "gwt", "dal"})
    THEN VocabError
    ELSE IF ~ require_keys(source.keys, {"vocabulary.facts", "vocabulary.actions",
                                         "vocabulary.expectations"})
    THEN VocabError
    ELSE IF ~ require_keys(source.keys, {"lints.implementation_leakage"}) THEN VocabError
    ELSE IF ~ require_keys(source.keys, {"gwt.keywords"}) THEN VocabError
    ELSE IF ~ require_keys(source.keys, {"dal.keywords"}) THEN VocabError
    ELSE LET start == [ok |-> TRUE, vocab |-> [types |-> source.types, entries |-> <<>>]]
             facts == LoadEntries("fact", YamlMapping(source.facts), start)
             actions == LoadEntries("action", YamlMapping(source.actions), facts)
         IN LoadEntries("expectation", YamlMapping(source.expectations), actions)

(***************************************************************************)
(* The specification of load_vocab: one vocabulary file is loaded.         *)
(***************************************************************************)
\* items in a section of the vocabulary file
MaxVocabItems == 2

\* the type table of the file: with and without the enum type code
TypeTables == {[n \in names |-> VocabTypes[n]] : names \in {{"text"}, {"text", "code"}}}

\* an item of the args list of an entry
ArgSource(name, type) == [keys |-> {"name", "type"}, name |-> name, type |-> type]

\* the args lists: none, a text argument, a code argument, an argument without a type
ArgSources ==
    { <<>>,
      <<ArgSource("file", "text")>>,
      <<ArgSource("code", "code")>>,
      <<[keys |-> {"name"}, name |-> "file", type |-> ""]>> }

\* the entry of a symbol: its render template names the symbol and every argument
EntrySource(keys, args, compiles) ==
    [keys |-> keys,
     args |-> args,
     match |-> << [compiles |-> compiles, pattern |-> <<Lit("it"), Lit(".")>>] >>,
     render |-> <<Lit("it")>>
                \o Flatten([i \in 1..Len(args) |-> <<Lit(" "), Group(args[i].name)>>])
                \o <<Lit(".")>>,
     default_args |-> EmptyDict]

\* the entries: complete ones with each args list, one without its dal key, one whose
\* match pattern is not a regular expression
EntrySources ==
    {EntrySource(EntryKeys, args, TRUE) : args \in ArgSources}
    \cup {EntrySource(EntryKeys \ {"dal", "dal.render"}, <<>>, TRUE),
          EntrySource(EntryKeys, <<>>, FALSE)}

ItemSources == [symbol : {"p", "q"}, spec : EntrySources]

\* the vocabulary files: well-formed at the root, or not a mapping, or without lints
VocabSources ==
    [mapping : {TRUE}, keys : {RootKeys}, types : TypeTables,
     facts : SeqsUpTo(ItemSources, MaxVocabItems),
     actions : SeqsUpTo(ItemSources, 1),
     expectations : {<<>>}]
    \cup [mapping : BOOLEAN, keys : {RootKeys, RootKeys \ {"lints", "lints.implementation_leakage"}},
          types : TypeTables, facts : {<<>>}, actions : {<<>>},
          expectations : SeqsUpTo(ItemSources, 1)]

InitVocab ==
    /\ vsource \in VocabSources
    /\ vresult = VocabError
    /\ vpc = "ready"
    /\ ExtractIdle
    /\ GraphIdle
    /\ TriageIdle
    /\ DalIdle
    /\ GwtIdle
    /\ CompileIdle
    /\ SessionIdle
    /\ LaterIdleExcept("vocab")

LoadVocab ==
    /\ vpc = "ready"
    /\ vresult' = load_vocab(vsource)
    /\ vpc' = "done"
    /\ UNCHANGED <<vsource, notVocab>>

NextVocab == LoadVocab

SpecVocab == InitVocab /\ [][NextVocab]_vars

\* the items of the three sections of the file, each with its category
SourceItems(source) ==
    [i \in 1..Len(source.facts) |-> [category |-> "fact", item |-> source.facts[i]]]
    \o [i \in 1..Len(source.actions) |-> [category |-> "action", item |-> source.actions[i]]]
    \o [i \in 1..Len(source.expectations) |->
           [category |-> "expectation", item |-> source.expectations[i]]]

\* the file names a (category, symbol) pair twice, or declares an argument of a type
\* that its type table does not hold
SourceViolates(source) ==
    LET items == SourceItems(source)
    IN \/ \E i, j \in 1..Len(items) :
             /\ i # j
             /\ items[i].category = items[j].category
             /\ items[i].item.symbol = items[j].item.symbol
       \/ \E i \in 1..Len(items) :
             \E k \in 1..Len(items[i].item.spec.args) :
                /\ "type" \in items[i].item.spec.args[k].keys
                /\ items[i].item.spec.args[k].type \notin DOMAIN source.types

\* C19: in a vocabulary returned by load_vocab the (category, symbol) pairs are unique
\* and the declared type of every argument of every entry is in the type table; for a
\* source that names a pair twice or declares an argument of a missing type load_vocab
\* raises DualSpecError and returns no vocabulary.
C19_VocabConsistent ==
    vpc = "done" =>
        /\ vresult.ok =>
              /\ \A i, j \in 1..Len(vresult.vocab.entries) :
                    (/\ vresult.vocab.entries[i].category = vresult.vocab.entries[j].category
                     /\ vresult.vocab.entries[i].symbol = vresult.vocab.entries[j].symbol)
                        => i = j
              /\ \A i \in 1..Len(vresult.vocab.entries) :
                    \A k \in 1..Len(vresult.vocab.entries[i].args) :
                       vresult.vocab.entries[i].args[k].type_name \in DOMAIN vresult.vocab.types
        /\ SourceViolates(vsource) => ~ vresult.ok

(***************************************************************************)
(* parser.py: the legacy GWT parser                                        *)
(*                                                                         *)
(* A line is a sequence of atoms: ";" and "===" make a header bar, a       *)
(* keyword atom ends with its space, "." is the full stop.                 *)
(***************************************************************************)
Token(type, text, line_number) == [type |-> type, text |-> text, line_number |-> line_number]

\* str.upper of the first atom of a line
Upper(a) ==
    CASE a = "given " -> "GIVEN "
      [] a = "when " -> "WHEN "
      [] a = "then " -> "THEN "
      [] OTHER -> a

\* Lexer._detect_clause_type: the token type, or "None"
detect_clause_type(line) ==
    IF line = <<>> THEN "None"
    ELSE CASE Upper(Head(line)) = "GIVEN " -> "GIVEN"
           [] Upper(Head(line)) = "WHEN " -> "WHEN"
           [] Upper(Head(line)) = "THEN " -> "THEN"
           [] OTHER -> "None"

RECURSIVE ReadParts(_, _, _, _)
\* Lexer._read_clause, the loop: the parts read and the index where it stopped
ReadParts(lines, start, i, parts) ==
    IF i > Len(lines) THEN [parts |-> parts, last |-> i]
    ELSE LET stripped == Strip(lines[i])
             line == IF i = start /\ detect_clause_type(stripped) # "None"
                     THEN Tail(stripped) ELSE stripped
         IN IF EndsWith(line, ".") THEN [parts |-> Append(parts, line), last |-> i]
            ELSE ReadParts(lines, start, i + 1, Append(parts, line))

\* Lexer._read_clause
read_clause(lines, start) ==
    LET read == ReadParts(lines, start, start, <<>>)
        text == JoinWith(<<" ">>, read.parts)
    IN [text |-> IF EndsWith(text, ".") THEN Strip(SubSeq(text, 1, Len(text) - 1)) ELSE text,
        last |-> read.last]

\* one iteration of the loop of Lexer.tokenize that looks at an unknown line again
TokenizeStepKeepingUnknownLine(lines, i) ==
    LET stripped == Strip(lines[i])
    IN IF stripped = <<>>
       THEN [tokens |-> <<Token("BLANK", <<>>, i)>>, i |-> i + 1]
       ELSE IF StartsWith(stripped, ";") /\ "===" \in Range(stripped)
       THEN [tokens |-> <<Token("HEADER_BAR", stripped, i)>>, i |-> i + 1]
       ELSE IF StartsWith(stripped, ";")
       THEN [tokens |-> <<Token("COMMENT", Strip(Tail(stripped)), i)>>, i |-> i + 1]
       ELSE IF detect_clause_type(stripped) # "None"
       THEN [tokens |-> <<Token(detect_clause_type(stripped), read_clause(lines, i).text, i)>>,
             i |-> read_clause(lines, i).last + 1]
       ELSE [tokens |-> <<>>, i |-> i]

\* Lexer.tokenize, one iteration of the loop at line i: the tokens appended and the
\* line the next iteration looks at
TokenizeStep(lines, i) ==
    LET stripped == Strip(lines[i])
    IN IF stripped = <<>>
       THEN [tokens |-> <<Token("BLANK", <<>>, i)>>, i |-> i + 1]
       ELSE IF StartsWith(stripped, ";") /\ "===" \in Range(stripped)
       THEN [tokens |-> <<Token("HEADER_BAR", stripped, i)>>, i |-> i + 1]
       ELSE IF StartsWith(stripped, ";")
       THEN [tokens |-> <<Token("COMMENT", Strip(Tail(stripped)), i)>>, i |-> i + 1]
       ELSE IF detect_clause_type(stripped) # "None"
       THEN [tokens |-> <<Token(detect_clause_type(stripped), read_clause(lines, i).text, i)>>,
             i |-> read_clause(lines, i).last + 1]
       ELSE [tokens |-> <<>>, i |-> i + 1]

RECURSIVE TokenizeFrom(_, _)
\* Lexer.tokenize, the loop from line i on
TokenizeFrom(lines, i) ==
    IF i > Len(lines) THEN <<Token("EOF", <<>>, Len(lines) + 1)>>
    ELSE Only({ step.tokens \o TokenizeFrom(lines, step.i) :
                step \in {TokenizeStep(lines, i)} })

\* Lexer.tokenize
tokenize(lines) == TokenizeFrom(lines, 1)

\* Parser._peek
peek(tokens, pos) == IF pos <= Len(tokens) THEN tokens[pos] ELSE Token("EOF", <<>>, -1)

\* Parser._at_end
at_end(tokens, pos) == peek(tokens, pos).type = "EOF"

RECURSIVE skip_blanks(_, _)
\* Parser._skip_blanks: the position after the blanks
skip_blanks(tokens, pos) ==
    IF ~ at_end(tokens, pos) /\ peek(tokens, pos).type = "BLANK"
    THEN skip_blanks(tokens, pos + 1) ELSE pos

\* models.py: Clause
Clause(clause_type, text, line_number) ==
    [clause_type |-> clause_type, text |-> text, line_number |-> line_number]

RECURSIVE parse_clauses(_, _, _, _)
\* Parser._parse_clauses: the clauses and the position after them
parse_clauses(tokens, pos, token_type, clauses) ==
    IF ~ at_end(tokens, pos) /\ peek(tokens, pos).type = token_type
    THEN parse_clauses(tokens, skip_blanks(tokens, pos + 1), token_type,
                       Append(clauses, Clause(token_type, peek(tokens, pos).text,
                                              peek(tokens, pos).line_number)))
    ELSE [clauses |-> clauses, pos |-> pos]

RECURSIVE CollectTitle(_, _, _)
\* Parser._parse_header, the loop over the comment lines
CollectTitle(tokens, pos, title_parts) ==
    IF ~ at_end(tokens, pos) /\ peek(tokens, pos).type = "COMMENT"
    THEN CollectTitle(tokens, pos + 1, Append(title_parts, peek(tokens, pos).text))
    ELSE [title_parts |-> title_parts, pos |-> pos]

\* Parser._parse_header, called at a header bar
parse_header(tokens, pos) ==
    Only({ LET closing == ~ at_end(tokens, comments.pos)
                          /\ peek(tokens, comments.pos).type = "HEADER_BAR"
           IN [title |-> Strip(JoinWith(<<" ">>, comments.title_parts)),
               start_line |-> peek(tokens, pos).line_number,
               pos |-> IF closing THEN comments.pos + 1 ELSE comments.pos] :
           comments \in {CollectTitle(tokens, pos + 1, <<>>)} })

\* models.py: Scenario, with the place it was read from
ParsedScenario(title, givens, whens, thens, source_file, line_number) ==
    [title |-> title, givens |-> givens, whens |-> whens, thens |-> thens,
     source_file |-> source_file, line_number |-> line_number]

\* Scenario.validate that does not ask for a WHEN clause
validate_without_when(s) ==
    (IF s.title = <<>> THEN <<"Scenario must have a title">> ELSE <<>>)
    \o (IF s.givens = <<>> THEN <<"Scenario must have at least one GIVEN clause">> ELSE <<>>)
    \o (IF s.thens = <<>> THEN <<"Scenario must have at least one THEN clause">> ELSE <<>>)

\* Scenario.validate
validate(s) ==
    (IF s.title = <<>> THEN <<"Scenario must have a title">> ELSE <<>>)
    \o (IF s.givens = <<>> THEN <<"Scenario must have at least one GIVEN clause">> ELSE <<>>)
    \o (IF s.whens = <<>> THEN <<"Scenario must have at least one WHEN clause">> ELSE <<>>)
    \o (IF s.thens = <<>> THEN <<"Scenario must have at least one THEN clause">> ELSE <<>>)

\* models.py: ParseError of the legacy parser; the message is err, then the title
LegacyParseError(err, title, line_number, source_file) ==
    [message |-> <<err, " (scenario: '">> \o title \o <<"')">>,
     line_number |-> line_number, source_file |-> source_file]

\* Parser._parse_scenario_body; p holds pos, scenarios and errors of the Parser
parse_scenario_body(tokens, p, title, start_line, source_file) ==
    Only({ Only({ Only({ Only({ Only({
        IF validation_errors # <<>>
        THEN [pos |-> thens.pos, scenarios |-> p.scenarios,
              errors |-> p.errors \o [i \in 1..Len(validation_errors) |->
                            LegacyParseError(validation_errors[i], title, start_line,
                                             source_file)]]
        ELSE [pos |-> thens.pos, scenarios |-> Append(p.scenarios, parsed_scenario),
              errors |-> p.errors] :
        validation_errors \in {validate(parsed_scenario)} }) :
        parsed_scenario \in {ParsedScenario(title, givens.clauses, whens.clauses,
                                            thens.clauses, source_file, start_line)} }) :
        thens \in {parse_clauses(tokens, skip_blanks(tokens, whens.pos), "THEN", <<>>)} }) :
        whens \in {parse_clauses(tokens, skip_blanks(tokens, givens.pos), "WHEN", <<>>)} }) :
        givens \in {parse_clauses(tokens, skip_blanks(tokens, p.pos), "GIVEN", <<>>)} })

\* Parser._parse_scenario
parse_scenario(tokens, p, source_file) ==
    Only({ Only({ parse_scenario_body(tokens, after_header, header.title, header.start_line,
                                      source_file) :
                  after_header \in {[p EXCEPT !.pos = skip_blanks(tokens, header.pos)]} }) :
           header \in {parse_header(tokens, p.pos)} })

\* Parser.parse, one iteration of the loop: pos, scenarios and errors after it
ParseStep(tokens, p, source_file) ==
    LET type == peek(tokens, p.pos).type
    IN Only({ [step EXCEPT !.pos = skip_blanks(tokens, @)] :
              step \in { IF type = "HEADER_BAR" THEN parse_scenario(tokens, p, source_file)
                         ELSE IF type \in {"GIVEN", "WHEN", "THEN"}
                         THEN parse_scenario_body(tokens, p, <<"Untitled scenario">>,
                                                  peek(tokens, p.pos).line_number,
                                                  source_file)
                         ELSE [p EXCEPT !.pos = @ + 1] } })

RECURSIVE ParseLoop(_, _, _)
\* Parser.parse, the loop
ParseLoop(tokens, p, source_file) ==
    IF at_end(tokens, p.pos) THEN [scenarios |-> p.scenarios, errors |-> p.errors]
    ELSE Only({ ParseLoop(tokens, next, source_file) :
                next \in {ParseStep(tokens, p, source_file)} })

\* Parser.parse
parse(tokens, source_file) ==
    ParseLoop(tokens, [pos |-> skip_blanks(tokens, 1), scenarios |-> <<>>, errors |-> <<>>],
              source_file)

\* parse_gwt_string, of the lines of content.split("\n")
parse_gwt_string(lines, source_file) == parse(tokenize(lines), source_file)

(***************************************************************************)
(* The specification of the legacy parser: one text is parsed.             *)
(***************************************************************************)
\* blocks in the text given to parse_gwt_string
MaxBlocks == 2

BarLine == <<";", "===">>
TitleLine == <<";", " ", "T", ".">>
GivenLine == <<"GIVEN ", "a", ".">>
WhenLine == <<"WHEN ", "b", ".">>
ThenLine == <<"THEN ", "c", ".">>

\* what stands before the clauses of a block: nothing, a header with or without its
\* closing bar, a header whose comment is empty, a header with a blank line after its bar
BlockHeaders ==
    { <<>>,
      <<BarLine, TitleLine, BarLine>>,
      <<BarLine, TitleLine>>,
      <<BarLine, <<";">>, BarLine>>,
      <<BarLine, <<>>, TitleLine, BarLine>> }

\* the clauses of a block: every choice of sections, with blank lines, in another
\* order, in lower case and indented, around a line that is no clause or a comment,
\* with a last clause that has no full stop, with two clauses in a section
BlockBodies ==
    { <<>>, <<GivenLine>>, <<WhenLine>>, <<ThenLine>>,
      <<GivenLine, WhenLine>>, <<GivenLine, ThenLine>>, <<WhenLine, ThenLine>>,
      <<GivenLine, WhenLine, ThenLine>>,
      <<GivenLine, <<>>, WhenLine, <<>>, ThenLine>>,
      <<ThenLine, GivenLine>>,
      <<GivenLine, <<"x">>, <<" ", "when ", "b", ".">>, ThenLine>>,
      <<GivenLine, TitleLine, WhenLine, ThenLine>>,
      <<GivenLine, WhenLine, <<"THEN ", "c">>>>,
      <<GivenLine, <<"THEN ", "c">>>>,
      <<GivenLine, GivenLine, WhenLine, ThenLine, ThenLine>> }

TextBlocks == {h \o b : h \in BlockHeaders, b \in BlockBodies}

\* the source_file argument: a name, or None
SourceFiles == {"bad.gwt", "None"}

InitLegacy ==
    /\ ltext \in {Flatten(blocks) \o << <<>> >> : blocks \in SeqsUpTo(TextBlocks, MaxBlocks)}
    /\ lfile \in SourceFiles
    /\ lresult = [scenarios |-> <<>>, errors |-> <<>>]
    /\ lpc = "ready"
    /\ ExtractIdle
    /\ GraphIdle
    /\ TriageIdle
    /\ DalIdle
    /\ GwtIdle
    /\ CompileIdle
    /\ SessionIdle
    /\ LaterIdleExcept("legacy")

ParseGwtString ==
    /\ lpc = "ready"
    /\ lresult' = parse_gwt_string(ltext, lfile)
    /\ lpc' = "done"
    /\ UNCHANGED <<ltext, lfile, notLegacy>>

NextLegacy == ParseGwtString

SpecLegacy == InitLegacy /\ [][NextLegacy]_vars

\* the place of a clause type in the grammar: given_section when_section then_section
SectionRank(type) == CASE type = "GIVEN" -> 1 [] type = "WHEN" -> 2 [] type = "THEN" -> 3

\* the tokens from..to are clauses and blanks, and the clauses come in grammar order
IsClauseBlock(tokens, from, to) ==
    /\ \A k \in from..to : tokens[k].type \in {"GIVEN", "WHEN", "THEN", "BLANK"}
    /\ \A i, j \in from..to :
          (i < j /\ tokens[i].type # "BLANK" /\ tokens[j].type # "BLANK")
             => SectionRank(tokens[i].type) <= SectionRank(tokens[j].type)

\* the last token of the clause block that starts at `from` (from - 1 when it is empty)
ClauseBlockEnd(tokens, from) ==
    CHOOSE to \in (from - 1)..Len(tokens) :
        /\ IsClauseBlock(tokens, from, to)
        /\ \A more \in (to + 1)..Len(tokens) : ~ IsClauseBlock(tokens, from, more)

\* the last of the comment lines that follow the bar at `bar` (the bar when none does)
CommentsEnd(tokens, bar) ==
    CHOOSE to \in bar..(Len(tokens) - 1) :
        /\ \A k \in (bar + 1)..to : tokens[k].type = "COMMENT"
        /\ tokens[to + 1].type # "COMMENT"

\* the block that starts at token `at`, a header bar or a clause: its title, its line,
\* the clause types it has and the first token after it
BlockAt(tokens, at) ==
    LET headed == tokens[at].type = "HEADER_BAR"
        comments == IF headed THEN CommentsEnd(tokens, at) ELSE at
        body == IF ~ headed THEN at
                ELSE IF tokens[comments + 1].type = "HEADER_BAR" THEN comments + 2
                ELSE comments + 1
        last == ClauseBlockEnd(tokens, body)
    IN [title |-> IF headed
                  THEN Strip(JoinWith(<<" ">>,
                          [k \in 1..(comments - at) |-> tokens[at + k].text]))
                  ELSE <<"Untitled scenario">>,
        line |-> tokens[at].line_number,
        parts |-> {tokens[k].type : k \in body..last} \ {"BLANK"},
        next |-> last + 1]

RECURSIVE BlocksFrom(_, _)
\* the blocks of the token stream from token `at` on; a token that is neither a bar nor
\* a clause stands between blocks
BlocksFrom(tokens, at) ==
    IF tokens[at].type = "EOF" THEN {}
    ELSE IF tokens[at].type \in {"BLANK", "COMMENT"} THEN BlocksFrom(tokens, at + 1)
    ELSE {BlockAt(tokens, at)} \cup BlocksFrom(tokens, BlockAt(tokens, at).next)

\* what a block misses: the error texts of the title and of each section
MissingParts(block) ==
    (IF block.title = <<>> THEN {"Scenario must have a title"} ELSE {})
    \cup {"Scenario must have at least one GIVEN clause" : x \in {"GIVEN"} \ block.parts}
    \cup {"Scenario must have at least one WHEN clause" : x \in {"WHEN"} \ block.parts}
    \cup {"Scenario must have at least one THEN clause" : x \in {"THEN"} \ block.parts}

\* C20: every scenario in the ParseResult of parse_gwt_string has a non-empty title and
\* at least one GIVEN, one WHEN and one THEN clause; a block that misses any of these
\* gives no scenario and one error per missing part, each with the source file and a
\* positive line number; every other block of the input is parsed all the same: a
\* complete block gives its scenario and no error.
C20_CompleteScenariosOnly ==
    lpc = "done" =>
        /\ \A i \in 1..Len(lresult.scenarios) :
              /\ lresult.scenarios[i].title # <<>>
              /\ lresult.scenarios[i].givens # <<>>
              /\ lresult.scenarios[i].whens # <<>>
              /\ lresult.scenarios[i].thens # <<>>
        /\ \A block \in BlocksFrom(tokenize(ltext), 1) :
              LET scenarios == {i \in 1..Len(lresult.scenarios) :
                                   lresult.scenarios[i].line_number = block.line}
                  errors == {i \in 1..Len(lresult.errors) :
                                lresult.errors[i].line_number = block.line}
              IN /\ block.line > 0
                 /\ Cardinality(errors) = Cardinality(MissingParts(block))
                 /\ {lresult.errors[i].message[1] : i \in errors} = MissingParts(block)
                 /\ \A i \in errors : lresult.errors[i].source_file = lfile
                 /\ Cardinality(scenarios) = IF MissingParts(block) = {} THEN 1 ELSE 0
                 /\ \A i \in scenarios : lresult.scenarios[i].title = block.title
        /\ \A i \in 1..Len(lresult.errors) :
              \E block \in BlocksFrom(tokenize(ltext), 1) :
                 block.line = lresult.errors[i].line_number

\* a block without its WHEN clause, then a complete block: one error for the first, at
\* its line and with the file name, and the scenario of the second
C20_Witness ==
    /\ lpc = "done"
    /\ lfile = "bad.gwt"
    /\ Len(lresult.errors) = 1
    /\ lresult.errors[1].message[1] = "Scenario must have at least one WHEN clause"
    /\ Len(lresult.scenarios) = 1
    /\ lresult.scenarios[1].line_number > lresult.errors[1].line_number

(***************************************************************************)
(* parse_gwt: the sticky context and the scenario boundaries               *)
(***************************************************************************)
\* the local variables of parse_gwt after the first n lines of the file of SpecGwt
GwtAfter(n) == GwtLoop(GwtState, SubSeq(gwtText, 1, n), ModelVocab)

\* line i of the file is a clause that parse_gwt reached and accepted
AcceptedClause(i) ==
    /\ KeywordOf(Strip(gwtText[i])) # ""
    /\ GwtAfter(i).ok

\* the step that the accepted clause i became
StepOfClause(i) ==
    LET st == GwtAfter(i)
    IN CASE st.last_kind = "fact" -> st.givens[Len(st.givens)]
         [] st.last_kind = "action" -> st.whens[Len(st.whens)]
         [] OTHER -> st.thens[Len(st.thens)]

\* the scenario of the accepted clause i: the scenarios closed when it has been placed
ScenarioOfClause(i) == GwtAfter(i).boundaries

\* the sticky names that do not survive the end of a scenario
ScopedKeys == StickyKeys \ SurvivingKeys

\* C21: the context that the enrichment of a clause consults holds no file, gwt, dal,
\* source, from, target, scenario or line value but those that earlier clauses of the
\* same scenario contributed, and it holds every sticky value that an earlier clause of
\* the same scenario contributed; the fact that opens a scenario after WHEN or THEN
\* steps belongs to the scenario it opens.
C21_StickyContextScoped ==
    gpc = "done" =>
        \A i \in 1..Len(gwtText) :
            AcceptedClause(i) =>
                LET context == GwtAfter(i - 1).context
                    same == {j \in 1..(i - 1) :
                                AcceptedClause(j) /\ ScenarioOfClause(j) = ScenarioOfClause(i)}
                IN /\ \A key \in DOMAIN context \cap ScopedKeys :
                         \E j \in same : key \in DOMAIN StepOfClause(j).args
                   /\ \A j \in same :
                         \A key \in DOMAIN StepOfClause(j).args \cap StickyKeys :
                            key \in DOMAIN context

\* line i of the file is a header bar
IsBarLine(i) ==
    /\ Strip(gwtText[i]) # <<>>
    /\ Head(Strip(gwtText[i])) \in CommentAtoms
    /\ Bar \in Range(Strip(gwtText[i]))

\* line i of the file starts with a keyword
IsClauseLine(i) == KeywordOf(Strip(gwtText[i])) # ""

RECURSIVE ClauseKind(_)
\* the kind of the clause on line i; an AND clause has the kind of the clause before it
ClauseKind(i) ==
    IF i = 0 THEN ""
    ELSE IF ~ IsClauseLine(i) THEN ClauseKind(i - 1)
    ELSE IF KeywordOf(Strip(gwtText[i])) = "AND" THEN ClauseKind(i - 1)
    ELSE KindOf(KeywordOf(Strip(gwtText[i])))

\* the clauses before line n that have accumulated since the last of the boundaries
Accumulated(n, boundaries) ==
    {j \in 1..(n - 1) : IsClauseLine(j) /\ \A b \in boundaries : b <= j}

RECURSIVE BoundariesUpTo(_)
\* the lines up to n where a scenario is closed and a new one started: an opening bar
\* after a step, and a fact after an action or expectation
BoundariesUpTo(n) ==
    IF n = 0 THEN {}
    ELSE LET before == BoundariesUpTo(n - 1)
             steps == Accumulated(n, before)
             opening == /\ IsBarLine(n)
                        /\ Cardinality({j \in 1..(n - 1) : IsBarLine(j)}) % 2 = 0
         IN IF \/ opening /\ steps # {}
               \/ /\ IsClauseLine(n)
                  /\ ClauseKind(n) = "fact"
                  /\ \E j \in steps : ClauseKind(j) # "fact"
            THEN before \cup {n} ELSE before

\* the clauses of the k-th scenario of the file that have the given kind, in source order
ClausesOf(k, kind) ==
    SelectSeq([i \in 1..Len(gwtText) |-> i],
              LAMBDA i : /\ IsClauseLine(i)
                         /\ ClauseKind(i) = kind
                         /\ Cardinality(BoundariesUpTo(i)) = k - 1)

\* the steps of the clauses on the given lines
StepsOfClauses(clauses) == [n \in 1..Len(clauses) |-> StepOfClause(clauses[n])]

\* C22: the scenarios that parse_gwt returns are the clauses of the file cut at every
\* opening header bar that follows a step and before every fact that follows an action
\* or expectation: each section holds its clauses in source order, every fact of a
\* scenario precedes its actions and expectations, and no scenario is empty.
C22_ScenarioBoundaries ==
    (gpc = "done" /\ gwtOut.accepted) =>
        LET scenarios == gwtOut.ir.scenarios
            clauses == {i \in 1..Len(gwtText) : IsClauseLine(i)}
        IN /\ Len(scenarios) = Cardinality({Cardinality(BoundariesUpTo(i)) : i \in clauses})
           /\ \A k \in 1..Len(scenarios) :
                 /\ scenarios[k].givens = StepsOfClauses(ClausesOf(k, "fact"))
                 /\ scenarios[k].whens = StepsOfClauses(ClausesOf(k, "action"))
                 /\ scenarios[k].thens = StepsOfClauses(ClausesOf(k, "expectation"))
                 /\ scenarios[k].givens \o scenarios[k].whens \o scenarios[k].thens # <<>>
                 /\ \A n \in 1..Len(ClausesOf(k, "fact")) :
                       \A kind \in {"action", "expectation"} :
                          \A m \in 1..Len(ClausesOf(k, kind)) :
                             ClausesOf(k, "fact")[n] < ClausesOf(k, kind)[m]

\* an action, then a fact, then an action: the fact closed the first scenario and the
\* second holds the fact and the action after it
C22_Witness ==
    /\ gpc = "done"
    /\ gwtOut.accepted
    /\ \A i \in 1..Len(gwtText) : ~ IsBarLine(i)
    /\ Len(gwtOut.ir.scenarios) = 2
    /\ gwtOut.ir.scenarios[1].givens = <<>>
    /\ Len(gwtOut.ir.scenarios[2].givens) = 1
    /\ Len(gwtOut.ir.scenarios[2].whens) = 1

(***************************************************************************)
(* The specification of the synthesized pattern: the render template of an *)
(* entry is filled with string values and matched by the pattern that      *)
(* _build_vocab_entry appends to the entry's patterns.                     *)
(***************************************************************************)
\* atoms in the string value of an argument
MaxArgValue == 2

\* the string values: the empty string and texts over x, y and " to "
ArgValues == SeqsUpTo({"x", "y", " to "}, MaxArgValue)

\* the entries of the vocabulary, and an action with two arguments
RenderEntries ==
    Range(VocabEntries)
    \cup {VocabEntry("action", "copy", <<ArgSpec("from", "text"), ArgSpec("target", "text")>>,
                     <<>>,
                     <<Lit("WHEN "), Lit("the user copies"), Lit(" "), Group("from"),
                       Lit(" to "), Group("target"), Lit(".")>>,
                     EmptyDict)}

\* entry.gwt_render.format(**args) for string values
FillTemplate(template, args) ==
    Flatten([i \in 1..Len(template) |->
                IF template[i].group = "" THEN <<template[i].lit>>
                ELSE args[template[i].group]])

InitRender ==
    /\ rentry \in RenderEntries
    /\ rargs \in [{rentry.args[i].name : i \in 1..Len(rentry.args)} -> ArgValues]
    /\ rline = <<>>
    /\ rmatch = NoMatch
    /\ rpc = "ready"
    /\ ExtractIdle
    /\ GraphIdle
    /\ TriageIdle
    /\ DalIdle
    /\ GwtIdle
    /\ CompileIdle
    /\ SessionIdle
    /\ LaterIdleExcept("render")

RenderAndMatch ==
    /\ rpc = "ready"
    /\ rline' = FillTemplate(rentry.gwt_render, rargs)
    /\ rmatch' = FullMatch(gwt_patterns(rentry)[Len(gwt_patterns(rentry))],
                           FillTemplate(rentry.gwt_render, rargs))
    /\ rpc' = "done"
    /\ UNCHANGED <<rentry, rargs, notRender>>

NextRender == RenderAndMatch

SpecRender == InitRender /\ [][NextRender]_vars

\* C23: the line obtained by filling the render template of an entry with string values
\* for its declared arguments fully matches the pattern synthesized from the template,
\* and each named group captures the value that was filled in.
C23_RenderedLineMatches ==
    rpc = "done" =>
        /\ rmatch.ok
        /\ DOMAIN rmatch.groups = DOMAIN rargs
        /\ \A name \in DOMAIN rargs : rmatch.groups[name] = StrValue(rargs[name])

(***************************************************************************)
(* The specification of the DAL argument list: the arguments of a step are *)
(* rendered by _render_dal_step and the list is parsed by _parse_kwargs.   *)
(***************************************************************************)
\* atoms in a string argument
MaxArgAtoms == 2

\* the values of an argument: strings with commas, quotes, backslashes and equals
\* signs, ints and bools
KwargValues ==
    {StrValue(text) : text \in SeqsUpTo({"x", "\"", "\\", ",", "="}, MaxArgAtoms)}
    \cup {IntValue(0), IntValue(7), IntValue(0 - 7), BoolValue(TRUE), BoolValue(FALSE)}

\* the entry of the step: file is declared, any other name follows in sorted order
KwargsEntry == EntryOf(ModelVocab, "fact", "spec_file")

InitKwargs ==
    /\ \E names \in SUBSET {"file", "code"} : kargs \in [names -> KwargValues]
    /\ ktext = <<>>
    /\ kparsed = [ok |-> FALSE, args |-> EmptyDict]
    /\ kpc = "ready"
    /\ ExtractIdle
    /\ GraphIdle
    /\ TriageIdle
    /\ DalIdle
    /\ GwtIdle
    /\ CompileIdle
    /\ SessionIdle
    /\ LaterIdleExcept("kwargs")

RenderAndParseArgs ==
    /\ kpc = "ready"
    /\ ktext' = render_arg_text(KwargsEntry, kargs)
    /\ kparsed' = parse_kwargs(render_arg_text(KwargsEntry, kargs))
    /\ kpc' = "done"
    /\ UNCHANGED <<kargs, notKwargs>>

NextKwargs == RenderAndParseArgs

SpecKwargs == InitKwargs /\ [][NextKwargs]_vars

\* C25: parsing the argument list that the DAL renderer writes for a mapping of
\* strings, ints and bools returns the same names with the same values of the same
\* types, whatever commas, quotes, backslashes and equals signs the strings hold.
C25_ArgListRoundTrip ==
    kpc = "done" =>
        /\ kparsed.ok
        /\ DOMAIN kparsed.args = DOMAIN kargs
        /\ \A name \in DOMAIN kargs : kparsed.args[name] = kargs[name]

\* two arguments, the string holding a comma after an escaped quote
C25_Witness ==
    /\ kpc = "done"
    /\ DOMAIN kargs = {"file", "code"}
    /\ kargs["file"] = StrValue(<<"\"", ",">>)
    /\ kargs["code"].type = "int"
    /\ kparsed.ok
    /\ kparsed.args = kargs

(***************************************************************************)
(* The specification of the loops of the legacy parser: parse_gwt_string   *)
(* runs Lexer.tokenize and Parser.parse one loop iteration at a time.      *)
(***************************************************************************)
\* lines of the content
MaxStepLines == 3

\* the lines of a content: blank, header bar, comment, the three clauses, a clause
\* without its full stop, a line that is none of these
StepLines ==
    { <<>>, BarLine, TitleLine, GivenLine, WhenLine, ThenLine, <<"THEN ", "c">>, <<"x">> }

InitSteps ==
    /\ slines \in SeqsUpTo(StepLines, MaxStepLines)
    /\ si = 1
    /\ stokens = <<>>
    /\ sparser = [pos |-> 0, scenarios |-> <<>>, errors |-> <<>>]
    /\ sresult = [scenarios |-> <<>>, errors |-> <<>>]
    /\ spc = "tokenize"
    /\ ExtractIdle
    /\ GraphIdle
    /\ TriageIdle
    /\ DalIdle
    /\ GwtIdle
    /\ CompileIdle
    /\ SessionIdle
    /\ LaterIdleExcept("steps")

\* Lexer.tokenize, lines 52-83: one iteration of the while loop
TokenizeIteration ==
    /\ spc = "tokenize"
    /\ si <= Len(slines)
    /\ \E step \in {TokenizeStep(slines, si)} :
          /\ stokens' = stokens \o step.tokens
          /\ si' = step.i
    /\ UNCHANGED <<slines, sparser, sresult, spc, notSteps>>

\* Lexer.tokenize, lines 85-86, and Parser.parse, line 140: EOF is appended, the Parser
\* is made and skips the leading blanks
TokenizeReturn ==
    /\ spc = "tokenize"
    /\ si > Len(slines)
    /\ \E tokens \in {Append(stokens, Token("EOF", <<>>, Len(slines) + 1))} :
          /\ stokens' = tokens
          /\ sparser' = [pos |-> skip_blanks(tokens, 1), scenarios |-> <<>>, errors |-> <<>>]
    /\ spc' = "parse"
    /\ UNCHANGED <<slines, si, sresult, notSteps>>

\* Parser.parse, lines 142-151: one iteration of the while loop
ParseIteration ==
    /\ spc = "parse"
    /\ ~ at_end(stokens, sparser.pos)
    /\ sparser' = ParseStep(stokens, sparser, "None")
    /\ UNCHANGED <<slines, si, stokens, sresult, spc, notSteps>>

\* Parser.parse, line 153
ParseReturn ==
    /\ spc = "parse"
    /\ at_end(stokens, sparser.pos)
    /\ sresult' = [scenarios |-> sparser.scenarios, errors |-> sparser.errors]
    /\ spc' = "done"
    /\ UNCHANGED <<slines, si, stokens, sparser, notSteps>>

NextSteps == TokenizeIteration \/ TokenizeReturn \/ ParseIteration \/ ParseReturn

SpecSteps == InitSteps /\ [][NextSteps]_vars

\* the interpreter runs the next statement of the call until the call returns
SpecStepsLive == SpecSteps /\ WF_vars(NextSteps)

\* C30: every iteration of the loop of Lexer.tokenize moves on by at least one line,
\* every iteration of the loop of Parser.parse moves on by at least one token, and
\* parse_gwt_string returns its ParseResult after finitely many steps.
C30_LexerAndParserTerminate ==
    /\ [][ /\ (spc = "tokenize" /\ spc' = "tokenize") => si' > si
           /\ (spc = "parse" /\ spc' = "parse") => sparser'.pos > sparser.pos ]_vars
    /\ <>(spc = "done")

\* the call has returned for a content whose last clause has no full stop, after a clause
\* and a line that is none; the result is that of parse_gwt_string
C30_Witness ==
    /\ spc = "done"
    /\ slines = <<ThenLine, <<"x">>, <<"THEN ", "c">>>>
    /\ si = Len(slines) + 2
    /\ Len(sresult.errors) = 2
    /\ sresult = parse_gwt_string(slines, "None")

====
